---------------------------- MODULE Spec2Model ----------------------------
(***************************************************************************)
(* Model of the routing + dependency-injection runtime of upload-server:   *)
(*   - DIContainer                      (decorators/di.py)                 *)
(*   - RouterMixin route matcher        (mixins/http.py)                   *)
(*   - @route / @register_routes        (decorators/routing.py)            *)
(*   - CompositeController              (controllers/main.py)              *)
(*                                                                         *)
(* Python dicts are functions with a finite domain; insertion-ordered      *)
(* dicts that the code iterates over (route tables) are sequences of       *)
(* <<key, value>> pairs with unique keys.  Strings whose characters the    *)
(* code inspects (paths, route patterns) are sequences of one-character    *)
(* strings; identifiers that the code joins and splits on "_" are          *)
(* sequences of their "_"-separated words.                                 *)
(***************************************************************************)
EXTENDS Integers, Sequences, FiniteSets, TLC

VARIABLES
    container,   \* the process-wide DIContainer (_container, di.py:90)
    di_ret,      \* outcome of the last DIContainer call
    table,       \* the route table a plain RouterMixin handler dispatches on
    self,        \* the request handler object of the request being handled
    target,      \* the controller instance the composite delegates to
    class_routes,            \* routes_get/post/delete/put of each class that
                             \* holds such dicts (RouterMixin and the classes
                             \* that assign their own)
    decorated,               \* classes @register_routes has been applied to
    registered_controllers,  \* CompositeController._registered_controllers
    composite_routes,        \* CompositeController.routes_get/post/delete/put
    handler_to_controller,   \* CompositeController._handler_to_controller
    server_class,            \* the handler class the HTTP server instantiates
                             \* for every request
    threads,     \* the threads calling container.get: where each one is
                 \* in the body of get and what it holds
    storage,     \* the upload directory and the images table, with the
                 \* image service call in progress
    pagination   \* one call of parse_pagination: its arguments, what it
                 \* read from query_params and its outcome

vars == <<container, di_ret, table, self, target, class_routes, decorated,
          registered_controllers, composite_routes, handler_to_controller,
          server_class, threads, storage, pagination>>
di_vars == <<container, di_ret>>
router_vars == <<table, self, target>>
composite_vars == <<class_routes, decorated, registered_controllers,
                    composite_routes, handler_to_controller, server_class>>

None == "None"

\* No thread is inside container.get; no image service call is observed.
NoThreads == <<>>
NoStorage == [files |-> {}, rows |-> {}, call |-> None]

(***************************************************************************)
(* Generic dict helpers.                                                   *)
(***************************************************************************)
EmptyDict == [k \in {} |-> None]

DictPut(d, k, v) == [x \in (DOMAIN d) \cup {k} |-> IF x = k THEN v ELSE d[x]]

(***************************************************************************)
(* RouterMixin and JsonResponseMixin (mixins/http.py)                      *)
(***************************************************************************)
\* Bounds of the router model.
MaxPathLen == 4   \* characters of a request path
MaxRoutes == 2    \* entries of a route table

\* The token that stands for the text '([^/]+)' in a compiled pattern.
Group == "([^/]+)"

\* Characters of request paths.  None of them is special in a regular
\* expression except "?", which never reaches the matcher.
PathChars == {"/", "a", "<", ">", "?"}

Contains(s, ch) == \E i \in DOMAIN s : s[i] = ch

\* str.startswith
StartsWith(s, prefix) ==
    /\ Len(prefix) <= Len(s)
    /\ SubSeq(s, 1, Len(prefix)) = prefix

\* Mutant: the path is matched with its query string.
StripQuery_Keep(path) == path

\* base_path.split('?', 1)[0], guarded by '?' in base_path (lines 199-200)
StripQuery(path) ==
    IF Contains(path, "?")
    THEN LET q == CHOOSE i \in DOMAIN path :
                     path[i] = "?" /\ \A j \in 1..(i - 1) : path[j] # "?"
         IN SubSeq(path, 1, q - 1)
    ELSE path

\* re.finditer(r'<([^>]+)>', route) from position i on: the names captured by
\* the leftmost non-overlapping matches.
RECURSIVE FindParams(_, _)
FindParams(route, i) ==
    IF i > Len(route) THEN <<>>
    ELSE IF /\ route[i] = "<"
            /\ i + 1 <= Len(route)
            /\ route[i + 1] # ">"
            /\ \E j \in (i + 2)..Len(route) : route[j] = ">"
         THEN LET j == CHOOSE k \in (i + 2)..Len(route) :
                          /\ route[k] = ">"
                          /\ \A m \in (i + 2)..(k - 1) : route[m] # ">"
              IN <<SubSeq(route, i + 1, j - 1)>> \o FindParams(route, j + 1)
         ELSE FindParams(route, i + 1)

\* str.replace(old, new) where new is the single token `tok`: every
\* non-overlapping occurrence of `old`, left to right.
RECURSIVE ReplaceAll(_, _, _)
ReplaceAll(s, old, tok) ==
    IF s = <<>> THEN <<>>
    ELSE IF StartsWith(s, old)
         THEN <<tok>> \o ReplaceAll(SubSeq(s, Len(old) + 1, Len(s)), old, tok)
         ELSE <<Head(s)>> \o ReplaceAll(Tail(s), old, tok)

RECURSIVE ReplaceParams(_, _)
ReplaceParams(regex_pattern, names) ==
    IF names = <<>> THEN regex_pattern
    ELSE ReplaceParams(
             ReplaceAll(regex_pattern, <<"<">> \o Head(names) \o <<">">>, Group),
             Tail(names))

\* RouterMixin._route_to_regex: the compiled pattern (a sequence of literal
\* characters and Group tokens, anchored at both ends) and the parameter names.
RouteToRegex(route) ==
    LET param_names == FindParams(route, 1)
    IN [ regex |-> ReplaceParams(route, param_names),
         param_names |-> param_names ]

NoMatch == "NoMatch"

\* regex_pattern.match(path) for an anchored pattern: NoMatch, or the groups
\* captured.  A Group is greedy: it takes the longest run of non-'/'
\* characters for which the rest of the pattern still matches.
RECURSIVE RegexMatch(_, _)
RegexMatch(regex, path) ==
    IF regex = <<>>
    THEN IF path = <<>> THEN <<>> ELSE NoMatch
    ELSE IF Head(regex) = Group
    THEN LET Fits(k) == /\ \A i \in 1..k : path[i] # "/"
                        /\ RegexMatch(Tail(regex),
                                      SubSeq(path, k + 1, Len(path))) # NoMatch
             Ks == {k \in 1..Len(path) : Fits(k)}
         IN IF Ks = {} THEN NoMatch
            ELSE LET k == CHOOSE x \in Ks : \A y \in Ks : y <= x
                 IN <<SubSeq(path, 1, k)>>
                      \o RegexMatch(Tail(regex), SubSeq(path, k + 1, Len(path)))
    ELSE IF path # <<>> /\ Head(path) = Head(regex)
         THEN RegexMatch(Tail(regex), Tail(path))
         ELSE NoMatch

\* lines 172-174: params[param_name] = match.group(i + 1), a later name
\* overwriting an equal earlier one.
BindParams(param_names, groups) ==
    [ n \in {param_names[i] : i \in DOMAIN param_names} |->
        LET last == CHOOSE i \in DOMAIN param_names :
                        /\ param_names[i] = n
                        /\ \A j \in DOMAIN param_names :
                               param_names[j] = n => j <= i
        IN groups[last] ]

IsParameterized(route_pattern) == Contains(route_pattern, "<")

\* line 163: path in routes
ExactEntries(path, routes) ==
    {i \in DOMAIN routes : routes[i].pattern = path}

\* lines 166-171: the entries the second loop would return on
ParamEntries(path, routes) ==
    {i \in DOMAIN routes :
        /\ IsParameterized(routes[i].pattern)
        /\ RegexMatch(RouteToRegex(routes[i].pattern).regex, path) # NoMatch}

\* lines 178-179: the entries the third loop would return on
PrefixEntries(path, routes) ==
    {i \in DOMAIN routes :
        /\ ~IsParameterized(routes[i].pattern)
        /\ StartsWith(path, routes[i].pattern)}

\* Mutant: the loops keep the last matching entry instead of returning on the
\* first.
First_AsLast(S) == CHOOSE i \in S : \A j \in S : j <= i

\* dict iteration with a return on the first hit: the earliest entry of S
First(S) == CHOOSE i \in S : \A j \in S : i <= j

\* Identifiers (handler and class names) are the sequences of their
\* "_"-separated words; the empty sequence stands for None and for '', which
\* `not handler_name` does not tell apart.
NoHandler == <<>>

\* self.path is None
NoPath == <<None>>

NoParams == EmptyDict

\* Mutant: the prefix loop runs before the exact lookup.
MatchRoute_PrefixFirst(path, routes) ==
    IF PrefixEntries(path, routes) # {}
    THEN [ handler_name |-> routes[First(PrefixEntries(path, routes))].handler,
           params |-> NoParams ]
    ELSE IF ExactEntries(path, routes) # {}
    THEN [ handler_name |-> routes[First(ExactEntries(path, routes))].handler,
           params |-> NoParams ]
    ELSE IF ParamEntries(path, routes) # {}
    THEN LET e == routes[First(ParamEntries(path, routes))]
             rx == RouteToRegex(e.pattern)
         IN [ handler_name |-> e.handler,
              params |-> BindParams(rx.param_names, RegexMatch(rx.regex, path)) ]
    ELSE [ handler_name |-> NoHandler, params |-> NoParams ]

\* Mutant: the parameterized loop runs before the exact lookup.
MatchRoute_ParamFirst(path, routes) ==
    IF ParamEntries(path, routes) # {}
    THEN LET e == routes[First(ParamEntries(path, routes))]
             rx == RouteToRegex(e.pattern)
         IN [ handler_name |-> e.handler,
              params |-> BindParams(rx.param_names, RegexMatch(rx.regex, path)) ]
    ELSE IF ExactEntries(path, routes) # {}
    THEN [ handler_name |-> routes[First(ExactEntries(path, routes))].handler,
           params |-> NoParams ]
    ELSE IF PrefixEntries(path, routes) # {}
    THEN [ handler_name |-> routes[First(PrefixEntries(path, routes))].handler,
           params |-> NoParams ]
    ELSE [ handler_name |-> NoHandler, params |-> NoParams ]

\* RouterMixin._match_route: exact lookup, then parameterized patterns in
\* table order, then non-parameterized patterns as prefixes in table order.
MatchRoute(path, routes) ==
    IF ExactEntries(path, routes) # {}
    THEN [ handler_name |-> routes[First(ExactEntries(path, routes))].handler,
           params |-> NoParams ]
    ELSE IF ParamEntries(path, routes) # {}
    THEN LET e == routes[First(ParamEntries(path, routes))]
             rx == RouteToRegex(e.pattern)
         IN [ handler_name |-> e.handler,
              params |-> BindParams(rx.param_names, RegexMatch(rx.regex, path)) ]
    ELSE IF PrefixEntries(path, routes) # {}
    THEN [ handler_name |-> routes[First(PrefixEntries(path, routes))].handler,
           params |-> NoParams ]
    ELSE [ handler_name |-> NoHandler, params |-> NoParams ]

\* A request handler object: the attributes the dispatch code reads and
\* writes (headers and rfile are the objects built from the request being
\* read; left_over is the route_params the instance held when the request
\* arrived, {} of the class on a new instance; query is the text after the first "?" of path as its "&"-separated
\* pieces, kept for the handlers that read it), the services @inject bound on
\* it, the calls made on the image service, the handler name _match_route returned (matched), what was written
\* to the client (wfile), what was logged, the handler methods invoked, the
\* exception the handler body raised (handler_raised) and the exception, if
\* any, that left the dispatch (raised).
NewHandler(command, path) ==
    [ command      |-> command,
      path         |-> path,
      headers      |-> IF command = None THEN None ELSE "request.headers",
      rfile        |-> IF command = None THEN None ELSE "request.rfile",
      route_params |-> NoParams,
      left_over    |-> NoParams,
      query        |-> <<>>,
      services     |-> EmptyDict,
      service_calls |-> <<>>,
      matched      |-> NoHandler,
      wfile        |-> <<>>,
      logged       |-> <<>>,
      called       |-> <<>>,
      handler_raised |-> None,
      raised       |-> None ]

NoRequest == NewHandler(None, NoPath)

\* JsonResponseMixin.send_json_error: log at error level for a status of 500
\* or more and at warning level otherwise, then write {"detail": message}.
SendJsonError(h, status_code, message) ==
    [ h EXCEPT
        !.logged = Append(@, IF status_code >= 500 THEN "error" ELSE "warning"),
        !.wfile  = Append(@, [ status |-> status_code,
                               content_type |-> "application/json",
                               body |-> [detail |-> message] ]) ]

\* Mutant: an unmatched path is answered like a missing handler.
RouteNotFound_As500(h) == SendJsonError(h, 500, "Handler not implemented.")

\* handle_request, lines 206-208
RouteNotFound(h) == SendJsonError(h, 404, "Not Found")

\* handle_request, lines 211-213
HandlerNotImplemented(h) == SendJsonError(h, 500, "Handler not implemented.")

\* Mutant: the params are stored only when the match extracted some.
HandleRequestMatch_KeepsParams(h, routes) ==
    IF h.path = NoPath
    THEN [ h |-> SendJsonError(h, 500, "Path not available"),
           handler_name |-> NoHandler ]
    ELSE LET m  == MatchRoute(StripQuery(h.path), routes)
             h1 == [h EXCEPT !.route_params =
                                IF m.params = NoParams THEN @ ELSE m.params,
                             !.matched = m.handler_name]
         IN IF m.handler_name = NoHandler
            THEN [ h |-> RouteNotFound(h1), handler_name |-> NoHandler ]
            ELSE [ h |-> h1, handler_name |-> m.handler_name ]

\* handle_request, lines 194-204: the path check, the query strip, the match
\* and the store of the params.  `handler_name` is set when a handler is to be
\* looked up; otherwise the request has been answered.
HandleRequestMatch(h, routes) ==
    IF h.path = NoPath
    THEN [ h |-> SendJsonError(h, 500, "Path not available"),
           handler_name |-> NoHandler ]
    ELSE LET m  == MatchRoute(StripQuery(h.path), routes)
             h1 == [h EXCEPT !.route_params = m.params,
                             !.matched = m.handler_name]
         IN IF m.handler_name = NoHandler
            THEN [ h |-> RouteNotFound(h1), handler_name |-> NoHandler ]
            ELSE [ h |-> h1, handler_name |-> m.handler_name ]

\* Mutant: the dispatcher catches the handler's error and answers 500.
InvokeHandler_Caught(h, handler_name, handler_ok) ==
    IF handler_ok
    THEN [h EXCEPT !.called = Append(@, handler_name)]
    ELSE SendJsonError([h EXCEPT !.called = Append(@, handler_name),
                                 !.handler_raised = "HandlerError"],
                       500, "Internal Server Error")

\* handler() (http.py:215) and handler_method() (main.py:149): the handler body
\* runs and returns, or raises; no try surrounds either call.
InvokeHandler(h, handler_name, handler_ok) ==
    [h EXCEPT !.called = Append(@, handler_name),
              !.handler_raised = IF handler_ok THEN None ELSE "HandlerError",
              !.raised = IF handler_ok THEN None ELSE "HandlerError"]

\* handle_request on a handler whose class defines `defined`: getattr finds
\* the method or not (lines 210-215);
\* handler_ok is the outcome of the handler body.
HandleRequestPlain(h, routes, defined, handler_ok) ==
    LET r == HandleRequestMatch(h, routes)
    IN IF r.handler_name = NoHandler THEN r.h
       ELSE IF r.handler_name \notin defined
            THEN HandlerNotImplemented(r.h)
            ELSE InvokeHandler(r.h, r.handler_name, handler_ok)

\* All sequences over S of length at most n.
SeqsUpTo(S, n) == UNION {[1..k -> S] : k \in 0..n}

Paths == SeqsUpTo(PathChars, MaxPathLen)

\* Route patterns of the router model.
Patterns ==
    { <<"/">>,
      <<"/", "a">>,
      <<"/", "a", "/">>,
      <<"/", "<", "a", ">">>,
      <<"/", "a", "/", "<", "a", ">">>,
      <<"/", "<", "a", ">", "/", "a">> }

\* The handler name of the i-th entry of a table.
HandlerNames ==
    << <<"handle", "1">>, <<"handle", "2">>, <<"handle", "3">>, <<"handle", "4">> >>

\* Route tables: up to MaxRoutes entries with pairwise different patterns (the
\* keys of a dict), each naming its own handler.
Tables ==
    { [i \in 1..Len(ps) |-> [pattern |-> ps[i], handler |-> HandlerNames[i]]] :
        ps \in {q \in SeqsUpTo(Patterns, MaxRoutes) :
                  \A i, j \in DOMAIN q : i # j => q[i] # q[j]} }


(***************************************************************************)
(* DIContainer (decorators/di.py)                                          *)
(***************************************************************************)
\* Bounds of the DI model.
MaxInstances == 3      \* factory invocations per service name in one run
MaxRegistrations == 3  \* register() calls in one run

ServiceNames == {"image_service", "logger"}
Factories == {"factory_a", "factory_b"}
ServiceTypes == {None, "Logger"}

\* DIContainer.__init__: four empty dicts.  The last four fields observe the
\* run and are never read by the code: `calls` counts the factory invocations
\* made by get(name), `built` the objects those invocations returned, `made`
\* is the number of objects constructed so far (the identity of the next one)
\* and `registered` counts the register() calls per name.
NewContainer ==
    [ services        |-> EmptyDict,
      singletons      |-> EmptyDict,
      singleton_flags |-> EmptyDict,
      service_types   |-> EmptyDict,
      calls           |-> [n \in ServiceNames |-> 0],
      built           |-> [n \in ServiceNames |-> 0],
      made            |-> 0,
      registered      |-> [n \in ServiceNames |-> 0] ]

\* self._singleton_flags.get(name, True)
SingletonFlag(c, name) ==
    IF name \in DOMAIN c.singleton_flags THEN c.singleton_flags[name] ELSE TRUE

\* DIContainer.register: overwrites factory and flag, stores the type only
\* when one is given; _singletons is not touched.
ContainerRegister(c, name, factory, singleton, service_type) ==
    [ c EXCEPT
        !.services        = DictPut(@, name, factory),
        !.singleton_flags = DictPut(@, name, singleton),
        !.service_types   = IF service_type # None
                            THEN DictPut(@, name, service_type) ELSE @,
        !.registered      = [@ EXCEPT ![name] = @ + 1] ]

\* DIContainer.is_registered
IsRegistered(c, name) == name \in DOMAIN c.services

GetResult(c, name, outcome, value) ==
    [ container |-> c,
      ret |-> [op |-> "get", name |-> name, outcome |-> outcome,
               value |-> value] ]

\* Mutant: an unknown name is answered with None instead of an error.
GetUnknown_ReturnsNone(c, name) == GetResult(c, name, "returned", None)

\* get, lines 53-54: raise ValueError for a name that is not registered.
GetUnknown(c, name) == GetResult(c, name, "ValueError", None)

\* Mutant: the cached singleton is never looked up.
GetCacheHit_Never(c, name) == FALSE

\* get, line 56: the cached instance is served.
GetCacheHit(c, name) ==
    SingletonFlag(c, name) /\ name \in DOMAIN c.singletons

\* Mutant: the instance is cached whatever the singleton flag says.
GetStores_Always(c, name) == TRUE

\* get, line 62: the new instance is cached.
GetStores(c, name) == SingletonFlag(c, name)

\* The object a successful factory() call constructs: a new identity (id),
\* tagged with the factory that built it and with the registration of the
\* name (reg) that was current when it was built.
NewInstance(c, name) ==
    [by |-> c.services[name], id |-> c.made, reg |-> c.registered[name]]

\* DIContainer.get.  factory_ok is the outcome of the call `factory()`: the
\* factory returns a newly constructed object, or raises (the exception leaves
\* get before anything is cached).
ContainerGet(c, name, factory_ok) ==
    IF ~IsRegistered(c, name) THEN GetUnknown(c, name)
    ELSE IF GetCacheHit(c, name)
    THEN GetResult(c, name, "returned", c.singletons[name])
    ELSE IF ~factory_ok
    THEN GetResult([c EXCEPT !.calls[name] = @ + 1], name, "FactoryError", None)
    ELSE LET instance == NewInstance(c, name)
             c1 == [c EXCEPT !.calls[name] = @ + 1,
                             !.built[name] = @ + 1,
                             !.made = @ + 1]
         IN GetResult(IF GetStores(c, name)
                      THEN [c1 EXCEPT !.singletons = DictPut(@, name, instance)]
                      ELSE c1,
                      name, "returned", instance)

\* register() calls made so far, over all names
TotalRegistered(c) ==
    LET Sum[S \in SUBSET ServiceNames] ==
          IF S = {} THEN 0
          ELSE LET n == CHOOSE x \in S : TRUE
               IN c.registered[n] + Sum[S \ {n}]
    IN Sum[ServiceNames]


(***************************************************************************)
(* PaginationMixin (mixins/pagination.py) and PaginationDTO                *)
(* (dto/pagination.py)                                                     *)
(***************************************************************************)
MaxNumLen == 2   \* characters of a page / per_page query value

DigitChars == <<"0", "1", "2", "3", "4", "5", "6", "7", "8", "9">>

IsDigit(ch) == \E d \in DOMAIN DigitChars : DigitChars[d] = ch

DigitValue(ch) == (CHOOSE d \in DOMAIN DigitChars : DigitChars[d] = ch) - 1

\* The characters query values are built from: two digits, the signs, the
\* underscore int() accepts between digits, and a letter.
NumChars == {"0", "2", "-", "+", "_", "a"}

NumStrings == SeqsUpTo(NumChars, MaxNumLen)

\* The key is not in query_params.
Missing == <<"missing">>

\* str(n) for an int n
RECURSIVE NatToStr(_)
NatToStr(n) ==
    IF n < 10 THEN <<DigitChars[n + 1]>>
    ELSE NatToStr(n \div 10) \o <<DigitChars[(n % 10) + 1]>>

IntToStr(n) == IF n < 0 THEN <<"-">> \o NatToStr(-n) ELSE NatToStr(n)

\* The digits int() reads: after an optional sign, decimal digits with single
\* underscores between them.
IntDigits(s) ==
    IF s # <<>> /\ s[1] \in {"+", "-"} THEN Tail(s) ELSE s

IntSyntaxOk(s) ==
    LET d == IntDigits(s)
    IN /\ d # <<>>
       /\ \A i \in DOMAIN d : IsDigit(d[i]) \/ d[i] = "_"
       /\ d[1] # "_"
       /\ d[Len(d)] # "_"
       /\ \A i \in 1..(Len(d) - 1) : ~(d[i] = "_" /\ d[i + 1] = "_")

RECURSIVE DigitsValue(_, _)
DigitsValue(d, acc) ==
    IF d = <<>> THEN acc
    ELSE IF Head(d) = "_" THEN DigitsValue(Tail(d), acc)
    ELSE DigitsValue(Tail(d), acc * 10 + DigitValue(Head(d)))

\* int(s): [ok |-> FALSE] stands for ValueError.
ParseInt(s) ==
    IF ~IntSyntaxOk(s) THEN [ok |-> FALSE, value |-> 0]
    ELSE [ ok |-> TRUE,
           value |-> IF s[1] = "-" THEN -DigitsValue(IntDigits(s), 0)
                     ELSE DigitsValue(IntDigits(s), 0) ]

\* query_params.get(key, str(default))
QueryGet(given, default) == IF given = Missing THEN IntToStr(default) ELSE given

\* Mutant: a page below 1 is raised to 1 instead of rejected.
PageResult_Clamped(page_str) ==
    LET r == ParseInt(page_str)
    IN IF ~r.ok THEN [raised |-> "InvalidPageNumberError", page |-> 0]
       ELSE [raised |-> None, page |-> IF r.value <= 0 THEN 1 ELSE r.value]

\* parse_pagination, lines 39-44
PageResult(page_str) ==
    LET r == ParseInt(page_str)
    IN IF ~r.ok \/ r.value <= 0
       THEN [raised |-> "InvalidPageNumberError", page |-> 0]
       ELSE [raised |-> None, page |-> r.value]

\* Mutant: a per_page above max_per_page is kept.
ClampPerPage_Never(per_page, max_per_page) == per_page

\* lines 51-52; max_per_page is the set holding the limit, empty for None.
ClampPerPage(per_page, max_per_page) ==
    IF \E m \in max_per_page : per_page > m
    THEN CHOOSE m \in max_per_page : TRUE
    ELSE per_page

\* parse_pagination, lines 47-54
PerPageResult(per_page_str, max_per_page) ==
    LET r == ParseInt(per_page_str)
    IN IF ~r.ok \/ r.value <= 0
       THEN [raised |-> "InvalidPerPageError", per_page |-> 0]
       ELSE [raised |-> None, per_page |-> ClampPerPage(r.value, max_per_page)]

\* PaginationDTO(page=page, per_page=per_page); NoDTO when none was built
NoDTO == [page |-> 0, per_page |-> 0]

PaginationDTO(page, per_page) == [page |-> page, per_page |-> per_page]

\* Mutant: the offset of page n is n * per_page.
ToLimitOffset_FromPage(page, per_page) ==
    [limit |-> per_page, offset |-> page * per_page]

\* PaginationDTO.to_limit_offset
ToLimitOffset(page, per_page) ==
    [limit |-> per_page, offset |-> (page - 1) * per_page]

\* PaginationDTO.to_sql_params / PaginationMixin.get_limit_offset
ToSqlParams(dto) == ToLimitOffset(dto.page, dto.per_page)

NoSql == [limit |-> 0, offset |-> 0]

\* The arguments a caller passes besides query_params.
PaginationArgs ==
    [ default_page : {0, 1}, default_per_page : {0, 10},
      max_per_page : {{}, {0}, {2}, {20}} ]

\* A call that has not run yet.  `page` and `per_page` are what the call read
\* from query_params (Missing for an absent key, and for per_page also when the
\* call ended before reading it).
NewPagination(args) ==
    [ pc |-> "called", args |-> args, page |-> Missing, per_page |-> Missing,
      raised |-> None, dto |-> NoDTO, sql |-> NoSql ]

NoPagination ==
    NewPagination([default_page |-> 1, default_per_page |-> 10,
                   max_per_page |-> {}])

\* PaginationMixin.parse_pagination on query_params holding page and per_page
\* (or Missing).
ParsePaginationResult(p, page, per_page) ==
    LET pr  == PageResult(QueryGet(page, p.args.default_page))
        ppr == PerPageResult(QueryGet(per_page, p.args.default_per_page),
                             p.args.max_per_page)
    IN IF pr.raised # None
       THEN [p EXCEPT !.pc = "raised", !.page = page, !.raised = pr.raised]
       ELSE IF ppr.raised # None
       THEN [p EXCEPT !.pc = "raised", !.page = page, !.per_page = per_page,
                      !.raised = ppr.raised]
       ELSE [p EXCEPT !.pc = "returned", !.page = page, !.per_page = per_page,
                      !.dto = PaginationDTO(pr.page, ppr.per_page)]

(***************************************************************************)
(* @register_routes (decorators/routing.py) and CompositeController        *)
(* (controllers/main.py)                                                   *)
(***************************************************************************)
HttpMethods == <<"GET", "POST", "DELETE", "PUT">>

MethodSet == {HttpMethods[i] : i \in DOMAIN HttpMethods}

EmptyTables == [m \in MethodSet |-> <<>>]

\* The class whose route dicts every RouterMixin subclass inherits unless its
\* class body assigns its own (mixins/http.py:105-108).
RouterMixin == "RouterMixin"

Tag(handler, method, path) ==
    [handler |-> handler, method |-> method, path |-> path]

P_root == <<"/">>
P_health == <<"/", "h", "e", "a", "l", "t", "h">>
P_ready == <<"/", "r", "e", "a", "d", "y">>
P_upload == <<"/", "u", "p", "l", "o", "a", "d", "/">>
P_upload_filename == <<"/", "u", "p", "l", "o", "a", "d", "/", "<", "f", "i", "l", "e", "n", "a", "m", "e", ">">>
P_report == <<"/", "r", "e", "p", "o", "r", "t">>
P_stats == <<"/", "s", "t", "a", "t", "s">>

\* controllers/healthcheck.py: no route dicts in the class body; the @route
\* tags in the order dir(cls) lists the methods (sorted by name).  `readonly`
\* holds the attributes an instance cannot be assigned: the class inherits
\* the logger property of JsonResponseMixin (http.py:45-48), which has no
\* setter, and its body only annotates logger.
HealthCheckController ==
    [ name        |-> <<"HealthCheckController">>,
      own_tables  |-> FALSE,
      class_body  |-> EmptyTables,
      injected    |-> <<"logger">>,
      readonly    |-> {"logger"},
      tagged      |-> << Tag(<<"handle", "get", "health">>, "GET", P_health),
                         Tag(<<"handle", "get", "ready">>, "GET", P_ready),
                         Tag(<<"handle", "get", "root">>, "GET", P_root) >>,
      defined     |-> { <<"handle", "get", "health">>, <<"handle", "get", "ready">>, <<"handle", "get", "root">> } ]

\* controllers/upload.py: no route dicts in the class body.
UploadController ==
    [ name        |-> <<"UploadController">>,
      own_tables  |-> FALSE,
      class_body  |-> EmptyTables,
      injected    |-> <<"image_service", "logger">>,
      readonly    |-> {"logger"},
      tagged      |-> << Tag(<<"handle", "delete", "upload">>, "DELETE", P_upload_filename),
                         Tag(<<"handle", "get", "upload", "details">>, "GET", P_upload_filename),
                         Tag(<<"handle", "get", "uploads">>, "GET", P_upload),
                         Tag(<<"handle", "post", "upload">>, "POST", P_upload) >>,
      defined     |-> { <<"handle", "delete", "upload">>, <<"handle", "get", "upload", "details">>, <<"handle", "get", "uploads">>, <<"handle", "post", "upload">> } ]

\* A controller handed to register_controller whose class body assigns its own
\* routes_get/post/delete/put dicts (as app.py:60-72 does) before
\* @register_routes fills them.  It claims GET /, GET /upload/ and
\* GET /upload/<filename> as well, and
\* its routes_put names a method the class does not define.  Its class body
\* assigns logger, which replaces the inherited property.
GalleryController ==
    [ name        |-> <<"GalleryController">>,
      own_tables  |-> TRUE,
      class_body  |-> [EmptyTables EXCEPT
                         !["PUT"] = << [pattern |-> P_root,
                                        handler |-> <<"handle", "replace">>] >>],
      injected    |-> <<"image_service", "logger">>,
      readonly    |-> {},
      tagged      |-> << Tag(<<"handle", "index">>, "GET", P_root),
                         Tag(<<"handle", "list">>, "GET", P_upload),
                         Tag(<<"handle", "show">>, "GET", P_upload_filename) >>,
      defined     |-> { <<"handle", "index">>, <<"handle", "list">>,
                        <<"handle", "show">> } ]

\* A controller with its own dicts and its own logger attribute whose class
\* name contains an underscore.
Admin_Controller ==
    [ name        |-> <<"Admin", "Controller">>,
      own_tables  |-> TRUE,
      class_body  |-> EmptyTables,
      injected    |-> <<"logger">>,
      readonly    |-> {},
      tagged      |-> << Tag(<<"handle", "index">>, "GET", P_root),
                         Tag(<<"handle", "stats">>, "GET", P_stats) >>,
      defined     |-> { <<"handle", "index">>, <<"handle", "stats">> } ]

\* A controller with its own dicts and its own logger attribute that
\* declares, besides the logger, a service setup_container does not register.
ReportController ==
    [ name        |-> <<"ReportController">>,
      own_tables  |-> TRUE,
      class_body  |-> EmptyTables,
      injected    |-> <<"logger", "mailer">>,
      readonly    |-> {},
      tagged      |-> << Tag(<<"handle", "report">>, "GET", P_report) >>,
      defined     |-> { <<"handle", "report">> } ]

Controllers ==
    {"HealthCheckController", "UploadController", "GalleryController",
     "Admin_Controller", "ReportController"}

\* controllers/main.py:18-19: @inject('logger') on a class that inherits the
\* logger property of JsonResponseMixin and only annotates logger.
CompositeController ==
    [ name     |-> <<"CompositeController">>,
      injected |-> <<"logger">>,
      readonly |-> {"logger"} ]

\* A handler class derived from CompositeController whose class body assigns
\* logger; everything else, the class-level tables included, is inherited.
GatewayController ==
    [ name     |-> <<"GatewayController">>,
      injected |-> <<"logger">>,
      readonly |-> {} ]

\* The classes an HTTP server can be started with.
ServerClasses == {"CompositeController", "GatewayController"}

Class(c) ==
    CASE c = "CompositeController"   -> CompositeController
      [] c = "GatewayController"     -> GatewayController
      [] c = "HealthCheckController" -> HealthCheckController
      [] c = "UploadController"      -> UploadController
      [] c = "GalleryController"     -> GalleryController
      [] c = "Admin_Controller"      -> Admin_Controller
      [] c = "ReportController"      -> ReportController

\* routes_dict[path] = method_name on an insertion-ordered dict
TablePut(t, path, handler) ==
    IF \E i \in DOMAIN t : t[i].pattern = path
    THEN [i \in DOMAIN t |->
            IF t[i].pattern = path
            THEN [pattern |-> path, handler |-> handler] ELSE t[i]]
    ELSE Append(t, [pattern |-> path, handler |-> handler])

\* getattr(cls, routes_attr): the class's own dict, or the one it inherits
\* from RouterMixin (hasattr is true either way, so lines 62-64 add nothing).
TablesOwner(c) == IF Class(c).own_tables THEN c ELSE RouterMixin

\* The class whose dicts @register_routes writes for class c.
DecoratorOwner(c) == TablesOwner(c)

\* getattr(c, 'routes_get') and its siblings: the route dict of a method that
\* a dispatch on controller class c reads.
RoutesOf(c, method) == class_routes[TablesOwner(c)][method]

\* register_routes, lines 66-78, from the i-th tagged method on.
RECURSIVE ScanTagged(_, _, _, _)
ScanTagged(cr, owner, tagged, i) ==
    IF i > Len(tagged) THEN cr
    ELSE ScanTagged(
            [cr EXCEPT ![owner][tagged[i].method] =
                           TablePut(@, tagged[i].path, tagged[i].handler)],
            owner, tagged, i + 1)

\* decorators/routing.py: register_routes(cls)
RegisterRoutesOn(cr, c) ==
    LET owner == DecoratorOwner(c)
        cr0 == IF owner \in DOMAIN cr THEN cr
               ELSE [o \in DOMAIN cr \cup {owner} |->
                       IF o = owner THEN EmptyTables ELSE cr[o]]
    IN ScanTagged(cr0, owner, Class(c).tagged, 1)

\* controller_class.__dict__.get('routes_get', {}): only a dict the class
\* itself holds is seen.
ClassDictRoutes(cr, c, method) ==
    IF c \in DOMAIN cr THEN cr[c][method] ELSE <<>>

\* f"{controller_class.__name__}_{handler_name}"
CompositeHandlerName(c, handler_name) == Class(c).name \o handler_name

\* _merge_routes, line 83: path in target_routes
MergeSkips(target_routes, path) ==
    \E i \in DOMAIN target_routes : target_routes[i].pattern = path

\* _merge_routes, from the i-th entry of controller_routes on; agg holds the
\* target dict (routes) and _handler_to_controller.
RECURSIVE MergeRoutes(_, _, _, _)
MergeRoutes(agg, controller_routes, c, i) ==
    IF i > Len(controller_routes) THEN agg
    ELSE IF MergeSkips(agg.routes, controller_routes[i].pattern)
    THEN MergeRoutes(agg, controller_routes, c, i + 1)
    ELSE LET composite_handler_name ==
                 CompositeHandlerName(c, controller_routes[i].handler)
         IN MergeRoutes(
              [ routes |-> TablePut(agg.routes, controller_routes[i].pattern,
                                    composite_handler_name),
                handler_to_controller |->
                    DictPut(agg.handler_to_controller,
                            composite_handler_name, c) ],
              controller_routes, c, i + 1)

\* _aggregate_routes, lines 73-76 for one controller, from the k-th HTTP
\* method on; all holds the four aggregate dicts and _handler_to_controller.
RECURSIVE MergeController(_, _, _, _)
MergeController(all, cr, c, k) ==
    IF k > Len(HttpMethods) THEN all
    ELSE LET m == HttpMethods[k]
             merged == MergeRoutes(
                          [ routes |-> all.routes[m],
                            handler_to_controller |-> all.handler_to_controller ],
                          ClassDictRoutes(cr, c, m), c, 1)
         IN MergeController(
              [ routes |-> [all.routes EXCEPT ![m] = merged.routes],
                handler_to_controller |-> merged.handler_to_controller ],
              cr, c, k + 1)

\* _aggregate_routes: clear everything, then merge the registered controllers
\* in registration order.
RECURSIVE AggregateFrom(_, _, _, _)
AggregateFrom(all, cr, controllers, i) ==
    IF i > Len(controllers) THEN all
    ELSE AggregateFrom(MergeController(all, cr, controllers[i], 1),
                       cr, controllers, i + 1)

AggregateRoutes(cr, controllers) ==
    AggregateFrom([routes |-> EmptyTables, handler_to_controller |-> EmptyDict],
                  cr, controllers, 1)

InSeq(x, s) == \E i \in DOMAIN s : s[i] = x

\* controller_class.__new__(controller_class): no __init__ runs, so the
\* instance has no attribute of its own; route_params is the class attribute
\* of RouterMixin (http.py:111).
NoTarget ==
    [ class |-> None, services |-> EmptyDict, command |-> None,
      path |-> NoPath, headers |-> None, rfile |-> None, wfile |-> None,
      route_params |-> NoParams ]

\* Mutant: the streams and the headers are not handed over.
CopyHttpAttributes_PathOnly(instance, h) ==
    [instance EXCEPT !.path = h.path, !.command = h.command]

\* _copy_http_attributes (lines 155-171); every attribute of the list is set
\* on a handler that reached do_GET.  requestline, raw_requestline and
\* request_version are not read by any handler and are left out.
CopyHttpAttributes(instance, h) ==
    [instance EXCEPT !.path = h.path, !.headers = h.headers,
                     !.rfile = h.rfile, !.wfile = h.wfile,
                     !.command = h.command]

\* setattr(instance, name, value): a property without a setter found on the
\* class makes the assignment raise AttributeError.
SetAttr(services, readonly, name, value) ==
    IF name \in readonly
    THEN [services |-> services, raised |-> "AttributeError"]
    ELSE [services |-> DictPut(services, name, value), raised |-> None]

\* lines 131-134 (and di.py:136-140): container.get, then setattr, for each
\* declared service from the i-th on; the first failing get or setattr ends
\* the injection.
RECURSIVE InjectServices(_, _, _, _, _)
InjectServices(acc, names, readonly, i, factory_ok) ==
    IF i > Len(names) \/ acc.raised # None THEN acc
    ELSE LET r == ContainerGet(acc.container, names[i], factory_ok)
             set == SetAttr(acc.services, readonly, names[i], r.ret.value)
         IN InjectServices(
              IF r.ret.outcome = "returned"
              THEN [ container |-> r.container,
                     services |-> set.services,
                     raised |-> set.raised ]
              ELSE [ container |-> r.container,
                     services |-> acc.services,
                     raised |-> r.ret.outcome ],
              names, readonly, i + 1, factory_ok)

\* The injection loop on a new instance of class c.
Inject(c0, c, factory_ok) ==
    InjectServices([container |-> c0, services |-> EmptyDict, raised |-> None],
                   Class(c).injected, Class(c).readonly, 1, factory_ok)

\* delegate_handler, line 148: getattr(controller_instance, name) without a
\* default raises AttributeError.
MissingOnController(h) == [h EXCEPT !.raised = "AttributeError"]

\* delegate_handler (lines 126-149) for controller class c and the handler
\* name split off the composite name.
DelegateHandler(h, c0, c, original_handler_name, factory_ok, handler_ok) ==
    LET inj == Inject(c0, c, factory_ok)
        \* lines 136-143: the transport attributes and the route params
        copied == [CopyHttpAttributes(
                      [NoTarget EXCEPT !.class = c, !.services = inj.services],
                      h)
                   EXCEPT !.route_params = h.route_params]
        \* line 145: controller_instance.logger = self.logger
        set == SetAttr(inj.services, Class(c).readonly, "logger",
                       h.services["logger"])
        instance == [copied EXCEPT !.services = set.services]
    IN IF inj.raised # None
       THEN [ h |-> [h EXCEPT !.raised = inj.raised],
              target |-> [NoTarget EXCEPT !.class = c,
                                          !.services = inj.services],
              container |-> inj.container ]
       ELSE IF set.raised # None
       THEN [ h |-> [h EXCEPT !.raised = set.raised], target |-> copied,
              container |-> inj.container ]
       ELSE IF original_handler_name \notin Class(c).defined
       THEN [ h |-> MissingOnController(h), target |-> instance,
              container |-> inj.container ]
       ELSE [ h |-> InvokeHandler(h, original_handler_name, handler_ok),
              target |-> instance, container |-> inj.container ]

\* name.split('_', 1)[1]
OriginalHandlerName(name) == Tail(name)

\* handle_request on a CompositeController: the handler is looked up through
\* __getattr__ (lines 110-153), which answers every name in
\* _handler_to_controller with delegate_handler.
HandleRequestComposite(h, c0, table_, h2c, factory_ok, handler_ok) ==
    LET r == HandleRequestMatch(h, table_)
    IN IF r.handler_name = NoHandler
       THEN [h |-> r.h, target |-> NoTarget, container |-> c0]
       ELSE IF r.handler_name \notin DOMAIN h2c
       THEN [ h |-> HandlerNotImplemented(r.h), target |-> NoTarget,
              container |-> c0 ]
       ELSE DelegateHandler(r.h, c0, h2c[r.handler_name],
                            OriginalHandlerName(r.handler_name), factory_ok,
                            handler_ok)

\* One request served by a new instance of the composite class cls:
\* @inject('logger') runs in __init__ (di.py:134-142) before the request is
\* read, then do_GET / do_POST / do_DELETE / do_PUT hands the aggregate dict of
\* the method to handle_request.  An exception in the injection leaves
\* __init__ before original_init is called, so the request line is never
\* parsed and command and path are never set.
ServeComposite(cls, c0, command, path, all_routes, h2c, factory_ok, handler_ok) ==
    LET inj == Inject(c0, cls, factory_ok)
        h == [NewHandler(command, path) EXCEPT !.services = inj.services]
    IN IF ~IsRegistered(c0, "logger")
       THEN [ h |-> [NoRequest EXCEPT !.raised = "ValueError"],
              target |-> NoTarget, container |-> c0 ]
       ELSE IF inj.raised # None
       THEN [ h |-> [NoRequest EXCEPT !.services = inj.services,
                                      !.raised = inj.raised],
              target |-> NoTarget, container |-> inj.container ]
       ELSE HandleRequestComposite(h, inj.container, all_routes[command], h2c,
                                   factory_ok, handler_ok)

(***************************************************************************)
(* The handler methods of HealthCheckController and UploadController       *)
(* (controllers/healthcheck.py, controllers/upload.py) and the service     *)
(* calls they make.  logger.info calls are left out.                       *)
(***************************************************************************)
\* JsonResponseMixin.send_json_response: status line, header and body.
SendJsonResponse(h, status_code, data) ==
    [ h EXCEPT !.wfile = Append(@, [ status |-> status_code,
                                     content_type |-> "application/json",
                                     body |-> data ]) ]

\* One "&"-separated piece of a query string: key=value, or a bare word
\* without "=".
Param(key, value) == [key |-> key, value |-> value, eq |-> TRUE]

BareParam(key) == [key |-> key, value |-> <<>>, eq |-> FALSE]

\* RouterMixin.parse_query_params from the i-th piece on: pieces without "="
\* are skipped, a repeated key keeps its last value.
RECURSIVE ParseQueryFrom(_, _, _)
ParseQueryFrom(query_params, pieces, i) ==
    IF i > Len(pieces) THEN query_params
    ELSE ParseQueryFrom(IF pieces[i].eq
                        THEN DictPut(query_params, pieces[i].key,
                                     pieces[i].value)
                        ELSE query_params,
                        pieces, i + 1)

ParseQueryParams(h) ==
    IF h.path = NoPath \/ ~Contains(h.path, "?") THEN EmptyDict
    ELSE ParseQueryFrom(EmptyDict, h.query, 1)

\* query_params.get(key), Missing for an absent key
QueryValue(query_params, key) ==
    IF key \in DOMAIN query_params THEN query_params[key] ELSE Missing

\* str.lower() on the letters the model uses
LowerChar(ch) ==
    CASE ch = "A" -> "a" [] ch = "S" -> "s" [] ch = "C" -> "c"
      [] ch = "D" -> "d" [] ch = "E" -> "e" [] OTHER -> ch

Lower(s) == [i \in DOMAIN s |-> LowerChar(s[i])]

Desc == <<"d", "e", "s", "c">>
Asc == <<"a", "s", "c">>

\* What a service call did: the exception it raised (None when it returned),
\* the status_code and message an error carries, the value it returned.
ServiceResult(raised, status_code, message, value) ==
    [ raised |-> raised, status_code |-> status_code, message |-> message,
      value |-> value ]

\* ImageUploadService.get_images_list (services/upload_image.py:84-126).
\* `repo` is what the repository does: count() fails, counts no rows, counts
\* rows and list_all fails with a RepositoryError or a ValueError, or returns
\* the rows.
GetImagesList(pagination_dto, order, repo) ==
    IF Lower(order) \notin {Desc, Asc}
    THEN ServiceResult("InvalidSortOrderError", 400,
                       "Order parameter must be 'desc' or 'asc'", None)
    ELSE CASE repo = "count_fails" ->
                ServiceResult("ImageListServiceError", 500, "repository", None)
           [] repo = "no_rows" -> ServiceResult(None, 0, None, 0)
           [] repo = "list_fails" ->
                ServiceResult("ImageListServiceError", 500, "repository", None)
           [] repo = "list_value_error" ->
                ServiceResult("InvalidSortOrderError", 400, "value", None)
           [] repo = "rows" -> ServiceResult(None, 0, None, 3)
           [] OTHER -> ServiceResult("RuntimeError", 0, None, None)

\* The arguments handle_get_uploads passes to parse_pagination (lines 59-64).
ListingArgs ==
    [default_page |-> 1, default_per_page |-> 10, max_per_page |-> {20}]

\* The message of InvalidPageNumberError / InvalidPerPageError, which only
\* depends on the error and on the rejected string (interfaces/pagination.py).
ValidatorMessage(p) ==
    [ error |-> p.raised,
      value |-> IF p.raised = "InvalidPageNumberError"
                THEN QueryGet(p.page, p.args.default_page)
                ELSE QueryGet(p.per_page, p.args.default_per_page) ]

\* A handler body that ends with an exception leaving it.
HandlerRaises(h, exception) ==
    [h EXCEPT !.handler_raised = exception, !.raised = exception]

\* Mutant: the handler goes on after answering 400.
AfterPaginationError_GoesOn(h, p, order, repo) ==
    LET h1 == SendJsonError(h, 400, ValidatorMessage(p))
        r == GetImagesList(NoDTO, order, repo)
    IN SendJsonResponse(
          [h1 EXCEPT !.service_calls = Append(@, "get_images_list")],
          200, [total |-> r.value])

\* handle_get_uploads, lines 68-73: answer 400 with str(e) and return.
AfterPaginationError(h, p, order, repo) ==
    SendJsonError(h, 400, ValidatorMessage(p))

\* UploadController.handle_get_uploads
HandleGetUploads(h, repo) ==
    LET query_params == ParseQueryParams(h)
        p == ParsePaginationResult(NewPagination(ListingArgs),
                                   QueryValue(query_params, "page"),
                                   QueryValue(query_params, "per_page"))
        order == IF "order" \in DOMAIN query_params
                 THEN Lower(query_params["order"]) ELSE Desc
        r == GetImagesList(p.dto, order, repo)
        h1 == [h EXCEPT !.service_calls = Append(@, "get_images_list")]
    IN [ pagination |-> p,
         h |-> IF p.raised # None
               THEN AfterPaginationError(h, p, order, repo)
               ELSE IF r.raised \in {"InvalidSortOrderError",
                                     "ImageListServiceError"}
               THEN SendJsonError(h1, r.status_code, r.message)
               ELSE IF r.raised # None THEN HandlerRaises(h1, r.raised)
               ELSE IF r.value = 0
               THEN SendJsonError(h1, 404, "No images found.")
               ELSE SendJsonResponse(h1, 200,
                                     [ page |-> p.dto.page,
                                       per_page |-> p.dto.per_page,
                                       total |-> r.value ]) ]

\* UploadController.handle_post_upload.  `form` is what the request body
\* holds and what parse_form does with it: the Content-Type is not multipart,
\* Content-Length is not a number (int() raises ValueError), parse_form raises
\* an APIError, no file part arrives, or one does; `svc` is what upload_image
\* does.
HandlePostUpload(h, form, svc) ==
    LET h1 == [h EXCEPT !.service_calls = Append(@, "upload_image")]
    IN CASE form = "not_multipart" ->
              SendJsonError(h, 400, "Bad Request: Expected multipart/form-data")
         [] form = "bad_length" -> HandlerRaises(h, "ValueError")
         [] form = "api_error" -> SendJsonError(h, 400, "form")
         [] form = "no_files" -> SendJsonError(h, 400, "No files uploaded")
         [] OTHER ->
              CASE svc = "UploadServiceError" -> SendJsonError(h1, 500, "upload")
                [] svc = "ok" -> SendJsonResponse(h1, 200, "uploaded")
                [] OTHER -> HandlerRaises(h1, "RuntimeError")

\* RouterMixin.get_route_param: self.route_params.get(param_name)
GetRouteParam(h, param_name) ==
    IF param_name \in DOMAIN h.route_params
    THEN h.route_params[param_name] ELSE <<>>

Filename == <<"f", "i", "l", "e", "n", "a", "m", "e">>

\* Mutant: the except clauses of handle_delete_upload do not return.
HandleDeleteUpload_NoReturn(h, svc) ==
    LET filename == GetRouteParam(h, Filename)
        h1 == [h EXCEPT !.service_calls = Append(@, "delete_image")]
    IN IF filename = <<>> THEN SendJsonError(h, 400, "Filename not provided.")
       ELSE CASE svc = "ImageNotFoundError" ->
                   SendJsonResponse(SendJsonError(h1, 404, "not found"),
                                    200, "deleted")
              [] svc = "ImageDeletionServiceError" ->
                   SendJsonResponse(SendJsonError(h1, 500, "deletion"),
                                    200, "deleted")
              [] svc = "ok" -> SendJsonResponse(h1, 200, "deleted")
              [] OTHER -> HandlerRaises(h1, "RuntimeError")

\* UploadController.handle_delete_upload; `svc` is what delete_image does.
HandleDeleteUpload(h, svc) ==
    LET filename == GetRouteParam(h, Filename)
        h1 == [h EXCEPT !.service_calls = Append(@, "delete_image")]
    IN IF filename = <<>> THEN SendJsonError(h, 400, "Filename not provided.")
       ELSE CASE svc = "ImageNotFoundError" -> SendJsonError(h1, 404, "not found")
              [] svc = "ImageDeletionServiceError" ->
                   SendJsonError(h1, 500, "deletion")
              [] svc = "ok" -> SendJsonResponse(h1, 200, "deleted")
              [] OTHER -> HandlerRaises(h1, "RuntimeError")

\* UploadController.handle_get_upload_details; `svc` is what
\* get_image_details does.
HandleGetUploadDetails(h, svc) ==
    LET filename == GetRouteParam(h, Filename)
        h1 == [h EXCEPT !.service_calls = Append(@, "get_image_details")]
    IN IF filename = <<>> THEN SendJsonError(h, 400, "Filename not provided.")
       ELSE CASE svc = "ImageNotFoundError" -> SendJsonError(h1, 404, "not found")
              [] svc = "ImageDetailsServiceError" ->
                   SendJsonError(h1, 500, "details")
              [] svc = "ok" -> SendJsonResponse(h1, 200, "details")
              [] OTHER -> HandlerRaises(h1, "RuntimeError")

\* HealthCheckController.handle_get_root / handle_get_health /
\* handle_get_ready
HandleHealth(h, handler_name) == SendJsonResponse(h, 200, handler_name)

\* What the environment of one handler call does: the repository behind
\* get_images_list, the request body of an upload, the image service call of
\* the other handlers.
RepoOutcomes ==
    {"count_fails", "no_rows", "list_fails", "list_value_error", "rows",
     "crash"}
FormOutcomes == {"not_multipart", "bad_length", "api_error", "no_files", "file"}
ServiceOutcomes ==
    {"ok", "UploadServiceError", "ImageNotFoundError",
     "ImageDeletionServiceError", "ImageDetailsServiceError", "crash"}

\* One handler call reads at most one of repo and svc, and svc only after a
\* file arrived, so the others are held at the outcome that lets it go on.
Env ==
    {[repo |-> r, form |-> "file", svc |-> "ok"] : r \in RepoOutcomes}
       \cup {[repo |-> "rows", form |-> f, svc |-> "ok"] : f \in FormOutcomes}
       \cup {[repo |-> "rows", form |-> "file", svc |-> v] :
                v \in ServiceOutcomes}

\* handler(): the body of the method of that name runs on h.  The result
\* holds the handler object afterwards and the parse_pagination call the
\* body made, if any.
RunHandler(h, handler_name, env) ==
    LET h0 == [h EXCEPT !.called = Append(@, handler_name)]
    IN CASE handler_name = <<"handle", "get", "uploads">> ->
              HandleGetUploads(h0, env.repo)
         [] handler_name = <<"handle", "post", "upload">> ->
              [ pagination |-> NoPagination,
                h |-> HandlePostUpload(h0, env.form, env.svc) ]
         [] handler_name = <<"handle", "delete", "upload">> ->
              [ pagination |-> NoPagination,
                h |-> HandleDeleteUpload(h0, env.svc) ]
         [] handler_name = <<"handle", "get", "upload", "details">> ->
              [ pagination |-> NoPagination,
                h |-> HandleGetUploadDetails(h0, env.svc) ]
         [] OTHER ->
              [ pagination |-> NoPagination,
                h |-> HandleHealth(h0, handler_name) ]

\* handle_request on an instance of controller class c whose handler methods
\* run: the route dict is the one the class reads, getattr finds the methods
\* the class defines (lines 210-215).
HandleRequestOn(h, routes, c, env) ==
    LET r == HandleRequestMatch(h, routes)
    IN IF r.handler_name = NoHandler
       THEN [pagination |-> NoPagination, h |-> r.h]
       ELSE IF r.handler_name \notin Class(c).defined
       THEN [pagination |-> NoPagination, h |-> HandlerNotImplemented(r.h)]
       ELSE RunHandler(r.h, r.handler_name, env)

InitClasses ==
    /\ class_routes =
         [o \in {RouterMixin} \cup {c \in Controllers : Class(c).own_tables}
            |-> IF o = RouterMixin THEN EmptyTables ELSE Class(o).class_body]
    /\ decorated = {}
    /\ registered_controllers = <<>>
    /\ composite_routes = EmptyTables
    /\ handler_to_controller = EmptyDict

NoCall == [op |-> "none", name |-> None, outcome |-> None, value |-> None]

\* container.register(name, factory, singleton, service_type)
Register(name, factory, singleton, service_type) ==
    /\ TotalRegistered(container) < MaxRegistrations
    /\ container' = ContainerRegister(container, name, factory, singleton,
                                      service_type)
    /\ di_ret' = [op |-> "register", name |-> name, outcome |-> "returned",
                  value |-> None]
    /\ UNCHANGED <<threads, storage, pagination, router_vars, composite_vars>>

\* container.get(name), one call run to completion
Get(name, factory_ok) ==
    LET r == ContainerGet(container, name, factory_ok)
    IN /\ r.container.calls[name] <= MaxInstances
       /\ container' = r.container
       /\ di_ret' = r.ret
       /\ UNCHANGED <<threads, storage, pagination, router_vars, composite_vars>>

InitDI ==
    /\ container = NewContainer
    /\ di_ret = NoCall
    /\ table = <<>>
    /\ self = NoRequest
    /\ target = NoTarget
    /\ InitClasses
    /\ server_class = None
    /\ threads = NoThreads
    /\ storage = NoStorage
    /\ pagination = NoPagination

NextDI ==
    \/ \E n \in ServiceNames, f \in Factories, s \in BOOLEAN, t \in ServiceTypes :
          Register(n, f, s, t)
    \/ \E n \in ServiceNames, ok \in BOOLEAN : Get(n, ok)

SpecDI == InitDI /\ [][NextDI]_vars

(***************************************************************************)
(* DIContainer.get called from several threads of one process.  get holds  *)
(* no lock, so a thread can be suspended between any two of its lines:     *)
(* each action below is one thread running the lines named in its comment. *)
(***************************************************************************)
\* Bound: threads of one process that call get.
MaxThreads == 2

Threads == 1..MaxThreads

\* A thread outside get: pc is the line of get it is at ("idle" outside,
\* "check" before line 55, "factory" before line 58, "store" before line 61,
\* "returned" once get returned or raised), name the argument of its call,
\* instance the local variable of line 59, outcome and value what its last
\* call produced.
IdleThread ==
    [pc |-> "idle", name |-> None, instance |-> None, outcome |-> None,
     value |-> None]

\* The container after the registrations of the start-up, before any get.
StartedContainer(logger_singleton) ==
    ContainerRegister(
       ContainerRegister(NewContainer, "image_service", "factory_a", TRUE, None),
       "logger", "factory_b", logger_singleton, "Logger")

InitThreads ==
    /\ \E logger_singleton \in BOOLEAN :
          container = StartedContainer(logger_singleton)
    /\ di_ret = NoCall
    /\ table = <<>>
    /\ self = NoRequest
    /\ target = NoTarget
    /\ InitClasses
    /\ server_class = None
    /\ threads = [t \in Threads |-> IdleThread]
    /\ storage = NoStorage
    /\ pagination = NoPagination

\* get, lines 52-53: thread t enters get(name); an unregistered name raises.
ThreadEnter(t, name) ==
    /\ threads[t].pc \in {"idle", "returned"}
    /\ threads' =
         [threads EXCEPT ![t] =
            IF ~IsRegistered(container, name)
            THEN [IdleThread EXCEPT !.pc = "returned", !.name = name,
                                    !.outcome = "ValueError"]
            ELSE [IdleThread EXCEPT !.pc = "check", !.name = name]]
    /\ UNCHANGED <<storage, pagination, di_vars, router_vars, composite_vars>>

\* get, lines 55-56: the cached singleton is returned, or t goes on to the
\* factory.
ThreadCheck(t) ==
    /\ threads[t].pc = "check"
    /\ threads' =
         [threads EXCEPT ![t] =
            IF GetCacheHit(container, threads[t].name)
            THEN [@ EXCEPT !.pc = "returned", !.outcome = "returned",
                           !.value = container.singletons[threads[t].name]]
            ELSE [@ EXCEPT !.pc = "factory"]]
    /\ UNCHANGED <<storage, pagination, di_vars, router_vars, composite_vars>>

\* get, lines 58-59: t calls the factory, which returns a new object or
\* raises.
ThreadFactory(t, factory_ok) ==
    LET name == threads[t].name
    IN /\ threads[t].pc = "factory"
       /\ container.calls[name] < MaxInstances
       /\ container' =
            [container EXCEPT !.calls[name] = @ + 1,
                              !.built[name] = IF factory_ok THEN @ + 1 ELSE @,
                              !.made = IF factory_ok THEN @ + 1 ELSE @]
       /\ threads' =
            [threads EXCEPT ![t] =
               IF factory_ok
               THEN [@ EXCEPT !.pc = "store",
                              !.instance = NewInstance(container, name)]
               ELSE [@ EXCEPT !.pc = "returned", !.outcome = "FactoryError"]]
       /\ UNCHANGED <<storage, pagination, di_ret, router_vars, composite_vars>>

\* get, lines 61-64: t caches its instance when the name is a singleton and
\* returns it.
ThreadStore(t) ==
    LET name == threads[t].name
    IN /\ threads[t].pc = "store"
       /\ container' =
            IF GetStores(container, name)
            THEN [container EXCEPT
                    !.singletons = DictPut(@, name, threads[t].instance)]
            ELSE container
       /\ threads' =
            [threads EXCEPT ![t] =
               [@ EXCEPT !.pc = "returned", !.outcome = "returned",
                         !.value = threads[t].instance]]
       /\ UNCHANGED <<storage, pagination, di_ret, router_vars, composite_vars>>

NextThreads ==
    \/ \E t \in Threads, n \in ServiceNames : ThreadEnter(t, n)
    \/ \E t \in Threads : ThreadCheck(t)
    \/ \E t \in Threads, ok \in BOOLEAN : ThreadFactory(t, ok)
    \/ \E t \in Threads : ThreadStore(t)

SpecThreads == InitThreads /\ [][NextThreads]_vars

(***************************************************************************)
(* ImageUploadService over the upload directory and the images table       *)
(* (services/upload_image.py).  delete_image runs in three steps, each a   *)
(* call that can fail: the row lookup, the file deletion, the row deletion.*)
(***************************************************************************)
\* Bound: images ever uploaded (each upload gets a new uuid name).
MaxImages == 2

Images == 1..MaxImages

\* No call of the image service is in progress.  had_both records whether
\* the image had its file and its row when delete_image was called.
NoServiceCall ==
    [op |-> None, filename |-> None, pc |-> "idle", had_both |-> FALSE,
     outcome |-> None]

CallEnded == storage.call.pc \in {"idle", "done"}

\* The call in progress ends with this outcome.
EndCall(call, outcome) == [call EXCEPT !.pc = "done", !.outcome = outcome]

InitStorage ==
    /\ container = NewContainer
    /\ di_ret = NoCall
    /\ table = <<>>
    /\ self = NoRequest
    /\ target = NoTarget
    /\ InitClasses
    /\ server_class = None
    /\ threads = NoThreads
    /\ storage = [NoStorage EXCEPT !.call = NoServiceCall]
    /\ pagination = NoPagination

\* upload_image, lines 64-84: handle_upload rejects the file (nothing is
\* written), or writes it under a new name; then create() stores the row or
\* raises a RepositoryError, which leaves the file that was written.
UploadImage(outcome) ==
    /\ CallEnded
    /\ \E f \in Images \ (storage.files \cup storage.rows) :
          /\ \A g \in Images \ (storage.files \cup storage.rows) : f <= g
          /\ storage' =
               [ files |-> IF outcome = "APIError" THEN storage.files
                           ELSE storage.files \cup {f},
                 rows  |-> IF outcome = "ok" THEN storage.rows \cup {f}
                           ELSE storage.rows,
                 call  |-> [op |-> "upload_image", filename |-> f,
                            pc |-> "done", had_both |-> FALSE,
                            outcome |-> IF outcome = "ok" THEN "returned"
                                        ELSE "UploadServiceError"] ]
    /\ UNCHANGED <<threads, pagination, di_vars, router_vars, composite_vars>>

\* delete_image(filename) is called.
DeleteImageCall(filename) ==
    /\ CallEnded
    /\ storage' =
         [storage EXCEPT !.call =
            [op |-> "delete_image", filename |-> filename, pc |-> "lookup",
             had_both |-> (filename \in storage.files
                             /\ filename \in storage.rows),
             outcome |-> None]]
    /\ UNCHANGED <<threads, pagination, di_vars, router_vars, composite_vars>>

\* delete_image, lines 170-175: get_by_filename raises a RepositoryError,
\* finds no row, or finds the row.
DeleteImageLookup(repo_ok) ==
    /\ storage.call.pc = "lookup"
    /\ storage' =
         [storage EXCEPT !.call =
            IF ~repo_ok THEN EndCall(@, "ImageDeletionServiceError")
            ELSE IF storage.call.filename \notin storage.rows
            THEN EndCall(@, "ImageNotFoundError")
            ELSE [@ EXCEPT !.pc = "file"]]
    /\ UNCHANGED <<threads, pagination, di_vars, router_vars, composite_vars>>

\* FileHandler.delete_file (handlers/files.py:139-165) on
\* a name with a supported extension: FileNotFoundError (404) when there is
\* no such file, otherwise os.remove removes it or fails and leaves it.
DeleteFile(files, filename, remove_ok) ==
    IF filename \notin files
    THEN [files |-> files, raised |-> "FileNotFoundError", status_code |-> 404]
    ELSE IF ~remove_ok
    THEN [files |-> files, raised |-> "PermissionDeniedError",
          status_code |-> 500]
    ELSE [files |-> files \ {filename}, raised |-> None, status_code |-> 0]

\* delete_image, lines 177-183
DeleteImageFile(remove_ok) ==
    /\ storage.call.pc = "file"
    /\ LET d == DeleteFile(storage.files, storage.call.filename, remove_ok)
       IN storage' =
            [storage EXCEPT
               !.files = d.files,
               !.call = IF d.raised = None THEN [@ EXCEPT !.pc = "row"]
                        ELSE IF d.status_code = 404
                        THEN EndCall(@, "ImageNotFoundError")
                        ELSE EndCall(@, "ImageDeletionServiceError")]
    /\ UNCHANGED <<threads, pagination, di_vars, router_vars, composite_vars>>

\* PostgresImageRepository.delete_by_filename (db/repositories.py:183-204):
\* the DELETE is committed and tells whether a row went, or a database error
\* is raised as EntityDeletionError with the row still there.
DeleteByFilename(rows, filename, db_ok) ==
    IF ~db_ok
    THEN [rows |-> rows, raised |-> "EntityDeletionError", deleted |-> FALSE]
    ELSE [rows |-> rows \ {filename}, raised |-> None,
          deleted |-> filename \in rows]

\* delete_image, lines 185-194
DeleteImageRow(db_ok) ==
    /\ storage.call.pc = "row"
    /\ LET d == DeleteByFilename(storage.rows, storage.call.filename, db_ok)
       IN storage' =
            [storage EXCEPT
               !.rows = d.rows,
               !.call = IF d.raised # None
                        THEN EndCall(@, "ImageDeletionServiceError")
                        ELSE IF ~d.deleted
                        THEN EndCall(@, "ImageNotFoundError")
                        ELSE EndCall(@, "True")]
    /\ UNCHANGED <<threads, pagination, di_vars, router_vars, composite_vars>>

NextStorage ==
    \/ \E outcome \in {"APIError", "RepositoryError", "ok"} :
          UploadImage(outcome)
    \/ \E f \in Images : DeleteImageCall(f)
    \/ \E ok \in BOOLEAN : DeleteImageLookup(ok)
    \/ \E ok \in BOOLEAN : DeleteImageFile(ok)
    \/ \E ok \in BOOLEAN : DeleteImageRow(ok)

SpecStorage == InitStorage /\ [][NextStorage]_vars

(***************************************************************************)
(* A plain RouterMixin handler serving requests on an arbitrary table.      *)
(***************************************************************************)
\* The handler methods the plain handler's class defines: the handler the
\* second entry of a table names is missing.
DefinedHandlers ==
    {HandlerNames[i] : i \in DOMAIN HandlerNames} \ {HandlerNames[2]}

InitRouter ==
    /\ table \in Tables
    /\ self = NoRequest
    /\ target = NoTarget
    /\ container = NewContainer
    /\ di_ret = NoCall
    /\ InitClasses
    /\ server_class = None
    /\ threads = NoThreads
    /\ storage = NoStorage
    /\ pagination = NoPagination

\* One request served by a new handler object: do_GET -> handle_request.
HandleRequest ==
    /\ self = NoRequest
    /\ \E path \in Paths \cup {NoPath}, handler_ok \in BOOLEAN :
          self' = HandleRequestPlain(NewHandler("GET", path), table,
                                     DefinedHandlers, handler_ok)
    /\ UNCHANGED <<threads, storage, pagination, table, target, di_vars, composite_vars>>

\* The connection is closed and the handler object is dropped.
Finish ==
    /\ self # NoRequest
    /\ self' = NoRequest
    /\ target' = NoTarget
    /\ UNCHANGED <<threads, storage, pagination, table, di_vars, composite_vars>>

NextRouter == HandleRequest \/ Finish

SpecRouter == InitRouter /\ [][NextRouter]_vars

(***************************************************************************)
(* The composite runtime: classes are decorated as their modules are       *)
(* imported, setup_container fills the container, controllers are          *)
(* registered and requests are served one at a time.                       *)
(***************************************************************************)
\* Bound: factory invocations per service name in one run of the composite.
MaxFactoryCalls == 1

Init ==
    /\ InitClasses
    /\ server_class \in ServerClasses
    /\ threads = NoThreads
    /\ storage = NoStorage
    /\ pagination = NoPagination
    /\ container = NewContainer
    /\ di_ret = NoCall
    /\ table = <<>>
    /\ self = NoRequest
    /\ target = NoTarget

\* @register_routes is applied when the module defining class c is imported.
RegisterRoutes(c) ==
    /\ c \notin decorated
    /\ self = NoRequest
    /\ decorated' = decorated \cup {c}
    /\ class_routes' = RegisterRoutesOn(class_routes, c)
    /\ UNCHANGED <<threads, storage, pagination, di_vars, router_vars, registered_controllers,
                   composite_routes, handler_to_controller, server_class>>

\* CompositeController.register_controller(controller_class)
RegisterController(c) ==
    /\ c \in decorated
    /\ self = NoRequest
    /\ IF InSeq(c, registered_controllers)
       THEN UNCHANGED <<registered_controllers, composite_routes,
                        handler_to_controller>>
       ELSE LET all == AggregateRoutes(class_routes,
                                       Append(registered_controllers, c))
            IN /\ registered_controllers' = Append(registered_controllers, c)
               /\ composite_routes' = all.routes
               /\ handler_to_controller' = all.handler_to_controller
    /\ UNCHANGED <<threads, storage, pagination, di_vars, router_vars, class_routes, decorated,
                   server_class>>

\* decorators/di.py: setup_container(), called once at startup
SetupContainer ==
    /\ TotalRegistered(container) = 0
    /\ self = NoRequest
    /\ container' =
         ContainerRegister(
            ContainerRegister(container, "image_service", "factory_a", TRUE,
                              "ImageUploadServiceInterface"),
            "logger", "factory_b", TRUE, "Logger")
    /\ di_ret' = [op |-> "register", name |-> "logger", outcome |-> "returned",
                  value |-> None]
    /\ UNCHANGED <<threads, storage, pagination, router_vars, composite_vars>>

Requests ==
    { <<"GET", P_root>>, <<"GET", P_health>>, <<"GET", P_upload>>,
      <<"GET", P_stats>>,
      <<"GET", P_report>>,
      <<"GET", P_upload \o <<"a">> >>,
      <<"GET", P_upload \o <<"?", "p">> >>,
      <<"POST", P_upload>>,
      <<"DELETE", P_upload \o <<"a">> >>,
      <<"PUT", P_root>> }

\* One request arrives at the server and is served by a CompositeController.
Dispatch ==
    /\ self = NoRequest
    /\ \E req \in Requests, factory_ok \in BOOLEAN, handler_ok \in BOOLEAN :
         LET r == ServeComposite(server_class, container, req[1], req[2],
                                 composite_routes, handler_to_controller,
                                 factory_ok, handler_ok)
         IN /\ \A n \in ServiceNames :
                  r.container.calls[n] <= MaxFactoryCalls
            /\ self' = r.h
            /\ target' = r.target
            /\ container' = r.container
    /\ UNCHANGED <<threads, storage, pagination, di_ret, table, composite_vars>>

Next ==
    \/ \E c \in Controllers : RegisterRoutes(c)
    \/ \E c \in Controllers : RegisterController(c)
    \/ SetupContainer
    \/ Dispatch
    \/ Finish

Spec == Init /\ [][Next]_vars

(***************************************************************************)
(* One call of parse_pagination, followed by the conversion of the DTO it  *)
(* returned to SQL parameters.                                             *)
(***************************************************************************)
InitPagination ==
    /\ pagination \in {NewPagination(a) : a \in PaginationArgs}
    /\ container = NewContainer
    /\ di_ret = NoCall
    /\ table = <<>>
    /\ self = NoRequest
    /\ target = NoTarget
    /\ InitClasses
    /\ server_class = None
    /\ threads = NoThreads
    /\ storage = NoStorage

\* self.parse_pagination(query_params, default_page, default_per_page,
\* max_per_page); per_page is read only when the page was accepted.
ParsePagination ==
    /\ pagination.pc = "called"
    /\ \E page \in NumStrings \cup {Missing} :
          IF PageResult(QueryGet(page, pagination.args.default_page)).raised
                # None
          THEN pagination' = ParsePaginationResult(pagination, page, Missing)
          ELSE \E per_page \in NumStrings \cup {Missing} :
                  pagination' = ParsePaginationResult(pagination, page, per_page)
    /\ UNCHANGED <<threads, storage, di_vars, router_vars, composite_vars>>

\* pagination.to_sql_params() on the DTO parse_pagination returned
GetLimitOffset ==
    /\ pagination.pc = "returned"
    /\ pagination' = [pagination EXCEPT !.pc = "sql",
                                        !.sql = ToSqlParams(pagination.dto)]
    /\ UNCHANGED <<threads, storage, di_vars, router_vars, composite_vars>>

NextPagination == ParsePagination \/ GetLimitOffset

SpecPagination == InitPagination /\ [][NextPagination]_vars

(***************************************************************************)
(* Requests handled by handle_request on an instance of HealthCheck-        *)
(* Controller or UploadController whose handler methods run.  Both classes *)
(* have been decorated, in the order their modules are imported.           *)
(***************************************************************************)
\* Bound: "&"-separated pieces in the query string of a listing request.
MaxQueryPieces == 2

QueryNums == {<<>>, <<"2">>, <<"0">>, <<"a">>, <<"2", "2">>}
QueryOrders == {Asc, <<"D", "E", "S", "C">>, <<"u", "p">>}

QueryPieces ==
    {Param(k, v) : k \in {"page", "per_page"}, v \in QueryNums}
       \cup {Param("order", v) : v \in QueryOrders}
       \cup {BareParam("page")}

QueryStrings == SeqsUpTo(QueryPieces, MaxQueryPieces)

Request(command, path, query) ==
    [command |-> command, path |-> path, query |-> query]

HandlerRequests ==
    { Request("GET", P_upload \o (IF q = <<>> THEN <<>> ELSE <<"?">>), q) :
        q \in QueryStrings }
      \cup { Request(m, p, <<>>) :
               m \in {"GET", "POST", "DELETE"},
               p \in {P_root, P_health, P_upload, P_upload \o <<"a">>,
                      P_upload_filename, P_stats, NoPath} }

InitHandlers ==
    /\ class_routes =
         RegisterRoutesOn(
            RegisterRoutesOn([o \in {RouterMixin} |-> EmptyTables],
                             "HealthCheckController"),
            "UploadController")
    /\ decorated = {"HealthCheckController", "UploadController"}
    /\ registered_controllers = <<>>
    /\ composite_routes = EmptyTables
    /\ handler_to_controller = EmptyDict
    /\ server_class = None
    /\ threads = NoThreads
    /\ storage = NoStorage
    /\ container = NewContainer
    /\ di_ret = NoCall
    /\ table = <<>>
    /\ self = NoRequest
    /\ target = NoTarget
    /\ pagination = NoPagination

\* One request handled by a new instance of controller class c.
Serve(c) ==
    /\ self = NoRequest
    /\ target = NoTarget
    /\ \E req \in HandlerRequests, env \in Env :
          LET r == HandleRequestOn(
                      [NewHandler(req.command, req.path)
                         EXCEPT !.query = req.query],
                      RoutesOf(c, req.command), c, env)
          IN /\ self' = r.h
             /\ pagination' = r.pagination
             /\ target' = [NoTarget EXCEPT !.class = c]
    /\ UNCHANGED <<threads, storage, table, di_vars, composite_vars>>

\* The response has been sent and the connection stays open: the instance
\* waits for the next request, keeping what handle_request stored on it.
KeepAlive ==
    /\ self.command # None
    /\ self.raised = None
    /\ self' = [NoRequest EXCEPT !.route_params = self.route_params]
    /\ pagination' = NoPagination
    /\ UNCHANGED <<threads, storage, target, table, di_vars, composite_vars>>

\* The waiting instance handles the next request of its connection: the
\* attributes of the request are replaced, route_params is what the earlier
\* handle_request left on the instance.
ServeAgain ==
    /\ self.command = None
    /\ target # NoTarget
    /\ \E req \in HandlerRequests, env \in Env :
          LET r == HandleRequestOn(
                      [NewHandler(req.command, req.path)
                         EXCEPT !.query = req.query,
                                !.route_params = self.route_params,
                                !.left_over = self.route_params],
                      RoutesOf(target.class, req.command), target.class, env)
          IN /\ self' = r.h
             /\ pagination' = r.pagination
    /\ UNCHANGED <<threads, storage, target, table, di_vars, composite_vars>>

\* The connection is closed and the instance is dropped.
Done ==
    /\ target # NoTarget
    /\ self' = NoRequest
    /\ target' = NoTarget
    /\ pagination' = NoPagination
    /\ UNCHANGED <<threads, storage, table, di_vars, composite_vars>>

NextHandlers ==
    \/ \E c \in {"HealthCheckController", "UploadController"} : Serve(c)
    \/ KeepAlive
    \/ ServeAgain
    \/ Done

SpecHandlers == InitHandlers /\ [][NextHandlers]_vars

(***************************************************************************)
(* Claims about parse_pagination and the SQL parameters, checked under     *)
(* SpecPagination.                                                         *)
(***************************************************************************)
\* The string spells a positive integer: an optional "+", then decimal digits
\* with single underscores allowed between them, at least one digit not "0".
\* (These are the spellings Python reads as an int greater than zero.)
IsPositiveInteger(s) ==
    LET d == IF s # <<>> /\ s[1] = "+" THEN Tail(s) ELSE s
    IN /\ d # <<>>
       /\ \A i \in DOMAIN d :
             \/ IsDigit(d[i])
             \/ /\ d[i] = "_"
                /\ 1 < i /\ i < Len(d)
                /\ IsDigit(d[i - 1]) /\ IsDigit(d[i + 1])
       /\ \E i \in DOMAIN d : IsDigit(d[i]) /\ d[i] # "0"

ParseEnded == pagination.pc # "called"

Returned == pagination.pc \in {"returned", "sql"}

PerPageRead ==
    ParseInt(QueryGet(pagination.per_page, pagination.args.default_per_page)).value

PageRead ==
    ParseInt(QueryGet(pagination.page, pagination.args.default_page)).value

Capped(n, max_per_page) ==
    IF \E m \in max_per_page : m < n
    THEN CHOOSE m \in max_per_page : TRUE
    ELSE n

\* C18: the SQL parameters derived from a returned descriptor are
\* limit = per_page after clamping and offset = (page - 1) * that per_page, so
\* page 1 gives offset 0.
C18_LimitOffsetDerived ==
    pagination.pc = "sql" =>
       /\ pagination.sql.limit = pagination.dto.per_page
       /\ pagination.sql.limit =
             Capped(PerPageRead, pagination.args.max_per_page)
       /\ pagination.sql.offset = (PageRead - 1) * pagination.sql.limit
       /\ PageRead = 1 => pagination.sql.offset = 0

\* C18, the case: page 2 of a clamped per_page.
C18_SecondPageOfClamped ==
    /\ pagination.pc = "sql"
    /\ pagination.dto.page = 2
    /\ PerPageRead > pagination.dto.per_page
    /\ pagination.sql.limit = 2
    /\ pagination.sql.offset = 2

\* C25: every PaginationDTO parse_pagination returns has page >= 1 and
\* per_page >= 1, and so limit >= 1 and offset >= 0, whatever query_params,
\* default_page, default_per_page and max_per_page are.
C25_DescriptorPositive ==
    /\ Returned => pagination.dto.page >= 1 /\ pagination.dto.per_page >= 1
    /\ pagination.pc = "sql" =>
          pagination.sql.limit >= 1 /\ pagination.sql.offset >= 0

\* A descriptor was returned by a call whose max_per_page is not positive.
C25_ReturnedUnderZeroMax ==
    /\ Returned
    /\ \E m \in pagination.args.max_per_page : m <= 0

(***************************************************************************)
(* Claims about the handler methods, checked under SpecHandlers.           *)
(***************************************************************************)
\* handle_request invoked the image-listing handler for the request being
\* served.
ListingCalled ==
    /\ self # NoRequest
    /\ self.called = << <<"handle", "get", "uploads">> >>

\* The value the request gives for key, Missing when it gives none.
Given(key) == QueryValue(ParseQueryParams(self), key)

Malformed(key) == Given(key) # Missing /\ ~IsPositiveInteger(Given(key))

CurrentRoutes == RoutesOf(target.class, self.command)
CurrentPath == StripQuery(self.path)

\* A handler method has been invoked for the current request.
HandlerInvoked == self.command # None /\ self.called # <<>>

\* The current request matched a route without parameters: by the exact
\* lookup, or by a prefix when no parameterized pattern matches.
MatchedWithoutParams ==
    \/ ExactEntries(CurrentPath, CurrentRoutes) # {}
    \/ ParamEntries(CurrentPath, CurrentRoutes) = {}

\* C27: whenever handle_request has invoked a handler, on a new instance or
\* on one that handled earlier requests, the route_params the handler reads
\* through get_route_param are the ones _match_route extracted from the path
\* of the current request, whatever the instance held before; they are empty
\* when the request matched a route without parameters.
C27_RouteParamsOfCurrentRequest ==
    HandlerInvoked =>
       /\ self.route_params = MatchRoute(CurrentPath, CurrentRoutes).params
       /\ GetRouteParam(self, Filename) =
             (IF Filename \in DOMAIN MatchRoute(CurrentPath, CurrentRoutes).params
              THEN MatchRoute(CurrentPath, CurrentRoutes).params[Filename]
              ELSE <<>>)
       /\ MatchedWithoutParams => self.route_params = NoParams

\* Witness: an instance that held a filename from an earlier request has
\* invoked the listing handler for a request matched without parameters.
C27_ParamsReplacedOnReuse ==
    /\ HandlerInvoked
    /\ self.left_over # NoParams
    /\ MatchedWithoutParams
    /\ self.called = << <<"handle", "get", "uploads">> >>

\* handle_request has returned for the current request without an exception.
DispatchReturned == self.command # None /\ self.raised = None

\* C29: a dispatch through handle_request that ends without an exception has
\* written exactly one response: either no handler was invoked and the
\* response is the 404 or one of the two 500 errors of handle_request, or
\* exactly one handler of HealthCheckController or UploadController was
\* invoked and it sent one response.
C29_ExactlyOneResponse ==
    DispatchReturned =>
       /\ Len(self.wfile) = 1
       /\ Len(self.called) <= 1
       /\ self.called = <<>> =>
             /\ self.wfile[1].status \in {404, 500}
             /\ self.service_calls = <<>>
       /\ self.called # <<>> =>
             /\ self.called[1] = self.matched
             /\ Len(self.service_calls) <= 1

\* Witness: the delete handler answered with the error of the image service.
C29_DeleteAnsweredNotFound ==
    /\ DispatchReturned
    /\ self.called = << <<"handle", "delete", "upload">> >>
    /\ self.service_calls = <<"delete_image">>
    /\ Len(self.wfile) = 1
    /\ self.wfile[1].status = 404

(***************************************************************************)
(* Claims about the route matcher and handle_request, checked under        *)
(* SpecRouter.                                                             *)
(***************************************************************************)
Handled == self # NoRequest /\ self.path # NoPath

RequestPath == StripQuery(self.path)

\* The pattern matches the path in one of the three ways _match_route knows.
PatternMatches(pattern, path) ==
    \/ pattern = path
    \/ /\ IsParameterized(pattern)
       /\ RegexMatch(RouteToRegex(pattern).regex, path) # NoMatch
    \/ /\ ~IsParameterized(pattern)
       /\ StartsWith(path, pattern)

NotFoundResponse ==
    [ status |-> 404, content_type |-> "application/json",
      body |-> [detail |-> "Not Found"] ]

\* C3: a request whose path, query string removed, matches no pattern of the
\* table is answered with exactly one response, 404 {"detail": "Not Found"},
\* and no handler is invoked.
C3_UnmatchedPathGets404 ==
    (Handled /\ \A i \in DOMAIN table :
                    ~PatternMatches(table[i].pattern, RequestPath))
        => /\ self.wfile = <<NotFoundResponse>>
           /\ self.called = <<>>
           /\ self.raised = None

\* C3, the case: a request with a query string matched nothing in a non-empty
\* table and was answered.
C3_UnmatchedRequestAnswered ==
    /\ Handled
    /\ table # <<>>
    /\ Contains(self.path, "?")
    /\ RequestPath # <<>>
    /\ \A i \in DOMAIN table : ~PatternMatches(table[i].pattern, RequestPath)
    /\ self.wfile # <<>>

\* The "/"-separated segments of a string: str.split('/').
RECURSIVE Segments(_)
Segments(s) ==
    IF ~Contains(s, "/") THEN <<s>>
    ELSE LET i == CHOOSE k \in DOMAIN s :
                     s[k] = "/" /\ \A j \in 1..(k - 1) : s[j] # "/"
         IN <<SubSeq(s, 1, i - 1)>> \o Segments(SubSeq(s, i + 1, Len(s)))

\* A segment of the form <name>.
IsParamSegment(seg) ==
    /\ Len(seg) >= 3
    /\ seg[1] = "<"
    /\ seg[Len(seg)] = ">"
    /\ \A k \in 2..(Len(seg) - 1) : seg[k] \notin {"<", ">"}

\* A parameterized pattern in the sense of the claim: at least one <name>
\* segment, and every other segment literal.
IsSegmentPattern(pattern) ==
    LET segs == Segments(pattern)
    IN /\ \E k \in DOMAIN segs : IsParamSegment(segs[k])
       /\ \A k \in DOMAIN segs :
             IsParamSegment(segs[k]) \/ ~Contains(segs[k], "<")

\* Same number of segments, literal segments equal, <name> segments non-empty.
SegmentwiseMatch(pattern, path) ==
    LET ps == Segments(pattern)
        xs == Segments(path)
    IN /\ Len(ps) = Len(xs)
       /\ \A k \in DOMAIN ps :
             IF IsParamSegment(ps[k]) THEN xs[k] # <<>> ELSE xs[k] = ps[k]

\* Every <name> of the pattern bound to the path segment at its position.
SegmentBindings(pattern, path) ==
    LET ps == Segments(pattern)
        xs == Segments(path)
        at == {k \in DOMAIN ps : IsParamSegment(ps[k])}
    IN [ n \in {SubSeq(ps[k], 2, Len(ps[k]) - 1) : k \in at} |->
           xs[CHOOSE k \in at : SubSeq(ps[k], 2, Len(ps[k]) - 1) = n] ]

\* C9, first part: a parameterized pattern matches a path exactly when the
\* path has the same segments, literal segments equal and <name> segments
\* non-empty (so "/" does not match "/<a>").
C9_MatchesExactlySegmentwise ==
    Handled =>
        \A i \in DOMAIN table :
            IsSegmentPattern(table[i].pattern) =>
                ((RegexMatch(RouteToRegex(table[i].pattern).regex, RequestPath)
                      # NoMatch)
                 <=> SegmentwiseMatch(table[i].pattern, RequestPath))

\* C9 (as claimed): a parameterized pattern matches a path exactly when the
\* path has the same segments, and whenever _match_route returns the handler
\* registered under a parameterized pattern, the returned params bind every
\* <name> of that pattern to the corresponding path segment.
C9_ParamHandlerGetsItsParams ==
    /\ C9_MatchesExactlySegmentwise
    /\ Handled =>
         \A i \in DOMAIN table :
            (IsSegmentPattern(table[i].pattern)
               /\ self.matched = table[i].handler)
            => self.route_params = SegmentBindings(table[i].pattern, RequestPath)

\* C9, the case: _match_route returned the handler of a parameterized pattern.
C9_ParamHandlerReturned ==
    /\ Handled
    /\ \E i \in DOMAIN table :
          /\ IsSegmentPattern(table[i].pattern)
          /\ self.matched = table[i].handler
          /\ RequestPath # table[i].pattern

\* C10: a path equal to a literal pattern of the table gets that pattern's
\* own handler with empty params, whatever else the table holds and in
\* whatever order.
C10_LiteralPatternMatchesItself ==
    Handled =>
        \A i \in DOMAIN table :
            (~IsParameterized(table[i].pattern)
               /\ RequestPath = table[i].pattern)
            => /\ self.matched = table[i].handler
               /\ self.route_params = NoParams

\* C10, the case: the path equals the literal pattern of the second entry
\* while the first entry matches the path too, as a prefix or by its
\* parameters.
C10_LiteralBehindAnotherMatch ==
    /\ Handled
    /\ Len(table) >= 2
    /\ ~IsParameterized(table[2].pattern)
    /\ RequestPath = table[2].pattern
    /\ PatternMatches(table[1].pattern, RequestPath)

(***************************************************************************)
(* Claims about which entry _match_route picks, checked under SpecRouter.  *)
(***************************************************************************)
\* Entry i of the table is a non-parameterized pattern the path starts with
\* (or equals).
LiteralMatches(i) ==
    /\ ~IsParameterized(table[i].pattern)
    /\ StartsWith(RequestPath, table[i].pattern)

\* Entry i of the table is a parameterized pattern whose regex matches.
ParamMatches(i) ==
    /\ IsParameterized(table[i].pattern)
    /\ RegexMatch(RouteToRegex(table[i].pattern).regex, RequestPath) # NoMatch

\* _match_route returned the handler of entry i (handler names are unique).
ReturnedEntry(i) == self.matched = table[i].handler

\* C11 (as claimed): when several non-parameterized patterns match a path and
\* no parameterized one does, the handler returned is that of the longest
\* matching pattern, whatever the registration order.
C11_MostSpecificReturned ==
    Handled =>
        \A i, j \in DOMAIN table :
            ( /\ ReturnedEntry(i)
              /\ LiteralMatches(j)
              /\ \A k \in DOMAIN table : ~ParamMatches(k) )
            => Len(table[i].pattern) >= Len(table[j].pattern)

\* C11 (amended): when no pattern equals the path and no parameterized pattern
\* matches it, the handler returned is that of the earliest registered
\* non-parameterized pattern the path starts with, whatever its length.
C11_EarliestPrefixReturned ==
    Handled =>
        \A j \in DOMAIN table :
            ( /\ LiteralMatches(j)
              /\ \A k \in 1..(j - 1) : ~LiteralMatches(k)
              /\ \A k \in DOMAIN table :
                    ~ParamMatches(k) /\ table[k].pattern # RequestPath )
            => /\ ReturnedEntry(j)
               /\ self.route_params = NoParams

\* C11, the case: two prefixes match, the shorter one was registered first and
\* its handler is the one returned.
C11_ShorterPrefixRegisteredFirst ==
    /\ Handled
    /\ Len(table) = 2
    /\ LiteralMatches(1) /\ LiteralMatches(2)
    /\ table[2].pattern # RequestPath
    /\ Len(table[1].pattern) < Len(table[2].pattern)
    /\ ReturnedEntry(1)

\* s with a slash appended, for an s that does not end in one
WithSlash(s) == s \o <<"/">>

EndsWithSlash(s) == s # <<>> /\ s[Len(s)] = "/"

\* C12: a path and its trailing-slash variant never resolve to each other's
\* handler: the handler registered for the literal pattern x/ is not returned
\* for the path x, nor the handler registered for x for the path x/.
C12_TrailingSlashSignificant ==
    Handled =>
        \A i \in DOMAIN table :
            ( /\ ~IsParameterized(table[i].pattern)
              /\ ReturnedEntry(i) )
            => /\ ~EndsWithSlash(RequestPath)
                    => table[i].pattern # WithSlash(RequestPath)
               /\ ~EndsWithSlash(table[i].pattern)
                    => RequestPath # WithSlash(table[i].pattern)

\* C12, the case: the table holds x/, the path is x, and the request was
\* answered.
C12_SlashedPatternSlashlessPath ==
    /\ Handled
    /\ RequestPath # <<>>
    /\ ~EndsWithSlash(RequestPath)
    /\ \E i \in DOMAIN table :
          /\ table[i].pattern = WithSlash(RequestPath)
          /\ ~ReturnedEntry(i)

\* The path equals no non-parameterized pattern of the table.
EqualsNoLiteral ==
    \A j \in DOMAIN table :
        ~IsParameterized(table[j].pattern) => table[j].pattern # RequestPath

\* C19: for a path that matches a parameterized pattern and also starts with a
\* non-parameterized pattern, without being equal to a literal pattern,
\* _match_route returns the handler of the (first) matching parameterized
\* pattern with the params captured from the path, whatever the order of the
\* two patterns.
C19_PrefixNeverShadowsParameterized ==
    Handled =>
        \A i \in DOMAIN table :
            ( /\ ParamMatches(i)
              /\ \A k \in 1..(i - 1) : ~ParamMatches(k)
              /\ \E j \in DOMAIN table : LiteralMatches(j)
              /\ EqualsNoLiteral )
            => /\ ReturnedEntry(i)
               /\ self.route_params =
                     SegmentBindings(table[i].pattern, RequestPath)

\* C19, the case: the prefix was registered first and the parameterized
\* pattern behind it was returned with its params.
C19_ParameterizedBehindPrefix ==
    /\ Handled
    /\ Len(table) = 2
    /\ LiteralMatches(1)
    /\ ParamMatches(2)
    /\ ReturnedEntry(2)
    /\ self.route_params = SegmentBindings(table[2].pattern, RequestPath)

\* C20 (as claimed): the handler of a parameterized pattern is returned only
\* for paths that equal no literal pattern and start with no registered
\* non-parameterized pattern.
C20_ParameterizedOnlyAfterPrefixFails ==
    Handled =>
        \A i \in DOMAIN table :
            (IsParameterized(table[i].pattern) /\ ReturnedEntry(i))
            => \A j \in DOMAIN table : ~LiteralMatches(j)

\* C20 (amended): the handler of a parameterized pattern is returned only for
\* paths that equal no literal pattern, and the handler of a non-parameterized
\* pattern is returned for a path it is only a prefix of only when no
\* parameterized pattern matches the path.
C20_ParameterizedAfterLiteralBeforePrefix ==
    Handled =>
        \A i \in DOMAIN table :
            /\ (IsParameterized(table[i].pattern) /\ ReturnedEntry(i))
                  => EqualsNoLiteral
            /\ ( /\ ~IsParameterized(table[i].pattern)
                 /\ ReturnedEntry(i)
                 /\ table[i].pattern # RequestPath )
                  => \A k \in DOMAIN table : ~ParamMatches(k)

\* C20, the case: a parameterized pattern registered first was returned for a
\* path that a later non-parameterized pattern is a prefix of.
C20_ParameterizedBeatsLaterPrefix ==
    /\ Handled
    /\ Len(table) = 2
    /\ IsParameterized(table[1].pattern)
    /\ ReturnedEntry(1)
    /\ LiteralMatches(2)
    /\ RequestPath # table[1].pattern

\* What handle_request does with the path p on the table of the state.
Selects(p) == HandleRequestPlain(NewHandler(self.command, p), table,
                                 DefinedHandlers, self.raised = None)

\* C13: handle_request on p?q, for a p without '?', selects the same handler
\* and the same route params as on p (and so answers alike).
C13_QueryStringIgnored ==
    Handled =>
        \A k \in DOMAIN self.path :
            ( /\ self.path[k] = "?"
              /\ ~Contains(SubSeq(self.path, 1, k - 1), "?") )
            => LET p == SubSeq(self.path, 1, k - 1)
               IN /\ self.matched = Selects(p).matched
                  /\ self.route_params = Selects(p).route_params
                  /\ self.called = Selects(p).called
                  /\ self.wfile = Selects(p).wfile

\* C13, the case: a request with a query string was routed to a parameterized
\* pattern and got params.
C13_QueryOnParameterizedRoute ==
    /\ Handled
    /\ Contains(self.path, "?")
    /\ self.matched # NoHandler
    /\ self.route_params # NoParams

(***************************************************************************)
(* Claims about @register_routes and the CompositeController, checked      *)
(* under Spec.                                                             *)
(***************************************************************************)
Tagged(c) == {Class(c).tagged[k] : k \in DOMAIN Class(c).tagged}

Claims(c, method, path) ==
    \E t \in Tagged(c) : t.method = method /\ t.path = path

ClaimedEarlier(i, method, path) ==
    \E j \in 1..(i - 1) : Claims(registered_controllers[j], method, path)

InAggregate(method, path, handler) ==
    \E e \in DOMAIN composite_routes[method] :
        /\ composite_routes[method][e].pattern = path
        /\ composite_routes[method][e].handler = handler

\* The request being served asks for (method, path).
Asked(method, path) ==
    /\ self # NoRequest
    /\ self.command = method
    /\ StripQuery(self.path) = path

\* C1: every (method, pattern) tagged with @route on a registered controller
\* that no earlier-registered controller claims is in the aggregate table of
\* that method, mapped to the controller's qualified handler id.
C1_TaggedRoutesAggregated ==
    \A i \in DOMAIN registered_controllers :
        LET c == registered_controllers[i]
        IN \A t \in Tagged(c) :
              ~ClaimedEarlier(i, t.method, t.path)
                 => InAggregate(t.method, t.path,
                                CompositeHandlerName(c, t.handler))

\* A registered controller whose routes did reach the aggregate table.
C1_ControllerAggregated ==
    \E i \in DOMAIN registered_controllers :
        \E t \in Tagged(registered_controllers[i]) :
            InAggregate(t.method, t.path,
                        CompositeHandlerName(registered_controllers[i],
                                             t.handler))

\* C2: when controllers A and B are registered in that order and both claim
\* the same (method, pattern), a request for it that is served without an
\* exception is routed to A's handler, whatever else has been registered.
C2_FirstRegisteredWins ==
    \A i, j \in DOMAIN registered_controllers :
        i < j =>
          \A ta \in Tagged(registered_controllers[i]) :
              ( /\ Claims(registered_controllers[j], ta.method, ta.path)
                /\ ~ClaimedEarlier(i, ta.method, ta.path)
                /\ Asked(ta.method, ta.path)
                /\ self.raised = None )
              => /\ target.class = registered_controllers[i]
                 /\ self.called = <<ta.handler>>

\* A collision in which the first-registered controller does serve the
\* request.
C2_CollisionServedByFirst ==
    \E i, j \in DOMAIN registered_controllers :
        /\ i < j
        /\ \E ta \in Tagged(registered_controllers[i]) :
              /\ Claims(registered_controllers[j], ta.method, ta.path)
              /\ Asked(ta.method, ta.path)
              /\ target.class = registered_controllers[i]
              /\ self.called = <<ta.handler>>

\* The composite matched a pattern of a controller that declares a service
\* the container does not know.
UnregisteredDeclared ==
    /\ self # NoRequest
    /\ self.matched \in DOMAIN handler_to_controller
    /\ \E k \in DOMAIN Class(handler_to_controller[self.matched]).injected :
          ~IsRegistered(container,
                        Class(handler_to_controller[self.matched]).injected[k])

\* C14: a composite dispatch to a controller that declares an unregistered
\* service is answered with one HTTP 500 JSON error, no exception leaves the
\* dispatch and no handler is invoked.
C14_UnregisteredServiceGets500 ==
    UnregisteredDeclared
       => /\ self.called = <<>>
          /\ self.raised = None
          /\ Len(self.wfile) = 1
          /\ self.wfile[1].status = 500
          /\ self.wfile[1].content_type = "application/json"

\* C14, the case: such a dispatch happened and the handler was not invoked.
C14_UnregisteredServiceDispatched ==
    /\ UnregisteredDeclared
    /\ target.class = "ReportController"
    /\ self.called = <<>>

\* C15: an error raised by the matched handler body leaves the dispatch
\* unchanged, through delegate_handler and handle_request, and the dispatcher
\* writes and logs nothing for it.
C15_HandlerErrorPropagates ==
    (self # NoRequest /\ self.handler_raised # None)
       => /\ self.raised = self.handler_raised
          /\ self.wfile = <<>>
          /\ self.logged = <<>>

\* C15, the case: the body of a handler the composite delegated to raised.
C15_DelegatedHandlerRaised ==
    /\ self # NoRequest
    /\ target.class \in Controllers
    /\ self.called # <<>>
    /\ self.handler_raised = "HandlerError"

\* The composite matched a pattern, instantiated the controller that owns it
\* and found no method of the handler's name on it.
MissingOnInstance ==
    /\ self # NoRequest
    /\ self.matched \in DOMAIN handler_to_controller
    /\ target.class = handler_to_controller[self.matched]
    /\ target.command # None
    /\ OriginalHandlerName(self.matched) \notin Class(target.class).defined

\* C4: a composite dispatch to a matched pattern whose handler name is not a
\* method of the instantiated controller writes 500 "Handler not implemented."
\* and no exception escapes.
C4_MissingHandlerGets500 ==
    MissingOnInstance
       => /\ self.raised = None
          /\ self.wfile = << [ status |-> 500,
                               content_type |-> "application/json",
                               body |-> [detail |-> "Handler not implemented."] ] >>

\* The missing handler was declared under its own name in the class body.
C4_DeclaredHandlerMissing ==
    /\ MissingOnInstance
    /\ target.class = "GalleryController"
    /\ self.command = "PUT"

\* The entry is one class c put there: a @route tag on one of its methods or
\* an assignment in its class body.
OwnEntry(c, method, e) ==
    \/ \E t \in Tagged(c) :
          t.method = method /\ t.path = e.pattern /\ t.handler = e.handler
    \/ \E k \in DOMAIN Class(c).class_body[method] :
          Class(c).class_body[method][k] = e

\* C21: once @register_routes has been applied to two controllers A and B,
\* A's table of each HTTP method holds every pattern tagged on A's handlers
\* and nothing but A's own entries, so a dispatch on A's table never selects a
\* handler name that only B has.
C21_TablesOwnedByController ==
    \A a \in decorated, b \in decorated :
        a # b =>
          \A m \in MethodSet :
              /\ \A t \in Tagged(a) :
                    t.method = m =>
                       \E k \in DOMAIN RoutesOf(a, m) :
                           RoutesOf(a, m)[k].pattern = t.path
              /\ \A k \in DOMAIN RoutesOf(a, m) :
                    OwnEntry(a, m, RoutesOf(a, m)[k])
              /\ \A req \in Requests :
                    req[1] = m =>
                       LET r == MatchRoute(StripQuery(req[2]), RoutesOf(a, m))
                       IN r.handler_name # NoHandler =>
                             \E k \in DOMAIN RoutesOf(a, m) :
                                 /\ RoutesOf(a, m)[k].handler = r.handler_name
                                 /\ OwnEntry(a, m, RoutesOf(a, m)[k])

\* @register_routes has been applied to the two controllers of the
\* application, which tag different patterns.
C21_BothControllersDecorated ==
    /\ {"HealthCheckController", "UploadController"} \subseteq decorated
    /\ \A t \in Tagged("HealthCheckController"), u \in Tagged("UploadController") :
          t.method = u.method => t.path # u.path

\* The handler names controller c contributes: the values of the route dicts
\* its class holds.
Contributed(c) ==
    UNION { { ClassDictRoutes(class_routes, c, m)[k].handler :
                k \in DOMAIN ClassDictRoutes(class_routes, c, m) } :
            m \in MethodSet }

RegisteredSet ==
    {registered_controllers[i] : i \in DOMAIN registered_controllers}

\* The composite delegated the request being served to an instance of a
\* registered controller.
Delegated ==
    /\ self # NoRequest
    /\ self.matched \in DOMAIN handler_to_controller
    /\ target.class \in Controllers

\* C22: for every registered controller C and handler name h it contributes,
\* splitting the qualified id built from (C, h) gives back h and the id maps
\* to C, two different pairs never build the same id, and a delegated request
\* reaches the controller and the handler name that contributed the route.
C22_QualifiedIdRoundTrips ==
    /\ \A c \in RegisteredSet : \A h \in Contributed(c) :
          /\ OriginalHandlerName(CompositeHandlerName(c, h)) = h
          /\ CompositeHandlerName(c, h) \in DOMAIN handler_to_controller
                => handler_to_controller[CompositeHandlerName(c, h)] = c
    /\ \A c1 \in RegisteredSet, c2 \in RegisteredSet :
          \A h1 \in Contributed(c1), h2 \in Contributed(c2) :
              <<c1, h1>> # <<c2, h2>>
                 => CompositeHandlerName(c1, h1) # CompositeHandlerName(c2, h2)
    /\ Delegated =>
          \E h \in Contributed(target.class) :
              /\ self.matched = CompositeHandlerName(target.class, h)
              /\ OriginalHandlerName(self.matched) = h

\* A request was delegated to the controller whose class name holds an
\* underscore.
C22_UnderscoredControllerDelegated ==
    /\ Delegated
    /\ target.class = "Admin_Controller"
    /\ Len(Class(target.class).name) > 1

\* No container.get made for the request being served has failed.
ServicesResolved ==
    /\ self # NoRequest
    /\ self.raised \notin {"ValueError", "FactoryError"}

\* Every service class c declares is bound, in `services`, to the object the
\* container resolves the name to.
BoundFromContainer(c, services) ==
    \A k \in DOMAIN Class(c).injected :
        LET s == Class(c).injected[k]
        IN /\ s \in DOMAIN services
           /\ s \in DOMAIN container.singletons
           /\ services[s] = container.singletons[s]

\* C23: injection binds every declared service to the object resolved from
\* the container before any handler method runs.  On a handler object the
\* server constructs normally, an injection in which every container.get
\* succeeds ends with all declared services bound; a controller on which the
\* composite invoked a handler has all its declared services bound.
C23_DeclaredServicesBound ==
    /\ ServicesResolved => BoundFromContainer(server_class, self.services)
    /\ ( /\ self # NoRequest
         /\ target.class \in Controllers
         /\ self.called # <<>> )
          => BoundFromContainer(target.class, target.services)

\* The server constructed a CompositeController while the logger was
\* registered and its factory worked.
C23_CompositeConstructed ==
    /\ ServicesResolved
    /\ server_class = "CompositeController"
    /\ threads = NoThreads
    /\ storage = NoStorage
    /\ "logger" \in DOMAIN container.singletons

\* The composite invoked a handler method on the instance it built.
DelegatedCall ==
    /\ Delegated
    /\ self.called # <<>>

\* C24: when the composite calls a delegated handler, the instance's path,
\* command, headers, input stream, output stream and route params are those
\* of the CompositeController for the request being served, and the route
\* params are the ones the match extracted from this request's path.
C24_DelegateSeesRequestState ==
    DelegatedCall =>
       /\ target.path = self.path
       /\ target.command = self.command
       /\ target.headers = self.headers
       /\ target.rfile = self.rfile
       /\ target.wfile = self.wfile
       /\ target.route_params = self.route_params
       /\ target.route_params =
             MatchRoute(StripQuery(self.path),
                        composite_routes[self.command]).params

\* A delegated handler was called for a request whose path carries a route
\* parameter.
C24_DelegatedWithRouteParam ==
    /\ DelegatedCall
    /\ target.route_params # NoParams
    /\ self.headers # None

(***************************************************************************)
(* Claims about ImageUploadService.delete_image, checked under SpecStorage.*)
(***************************************************************************)
\* delete_image has returned or raised for an image that had both its file
\* and its row when the call began.
DeleteEnded ==
    /\ storage.call.op = "delete_image"
    /\ storage.call.pc = "done"
    /\ storage.call.had_both

\* C30: when delete_image ends, by returning or by raising one of its
\* errors, for an image that had a file and a row, the file and the row are
\* either both still there or both gone, and True is returned only when both
\* are gone.
C30_DeleteKeepsFileAndRowTogether ==
    DeleteEnded =>
       /\ (storage.call.filename \in storage.files)
             <=> (storage.call.filename \in storage.rows)
       /\ storage.call.outcome = "True" =>
             /\ storage.call.filename \notin storage.files
             /\ storage.call.filename \notin storage.rows

\* The case of C30: the row deletion failed after the file had been removed.
C30_RowDeletionFailed ==
    /\ DeleteEnded
    /\ storage.call.outcome = "ImageDeletionServiceError"
    /\ storage.call.filename \notin storage.files

(***************************************************************************)
(* Claims about DIContainer.get called from several threads, checked       *)
(* under SpecThreads.                                                      *)
(***************************************************************************)
\* The threads whose last get(name) returned an instance.
ReturnedThreads(name) ==
    {t \in Threads : /\ threads[t].pc = "returned"
                     /\ threads[t].name = name
                     /\ threads[t].outcome = "returned"}

\* C28: for a service registered as a singleton, however the get(name) calls
\* of the threads interleave, the factory has built at most one instance and
\* every call that returned, returned the instance that is cached.
C28_FirstResolveWins ==
    \A name \in ServiceNames :
       SingletonFlag(container, name) =>
          /\ container.built[name] <= 1
          /\ \A t \in ReturnedThreads(name) :
                /\ name \in DOMAIN container.singletons
                /\ threads[t].value = container.singletons[name]

\* The case of C28: two threads were inside get for the same singleton at
\* the same time, each holding the instance its own factory call built.
C28_BothThreadsBuilt ==
    \E t1, t2 \in Threads :
       /\ t1 # t2
       /\ threads[t1].pc = "store"
       /\ threads[t2].pc = "store"
       /\ threads[t1].name = threads[t2].name
       /\ SingletonFlag(container, threads[t1].name)
       /\ threads[t1].instance # threads[t2].instance

(***************************************************************************)
(* Claims about the DIContainer, checked under SpecDI.                     *)
(***************************************************************************)
ReturnedGet == di_ret.op = "get" /\ di_ret.outcome = "returned"

\* C5 (as claimed): re-registering a name invalidates the cached singleton:
\* every get(n) that returns, returns an instance built by the factory that is
\* registered for n now, under the latest registration of n -- never one built
\* under an earlier registration.
C5_ReRegisterInvalidatesCache ==
    ReturnedGet =>
        /\ di_ret.value.by = container.services[di_ret.name]
        /\ di_ret.value.reg = container.registered[di_ret.name]

\* C5, the case: a get returned after the name had been registered twice.
C5_GetAfterReRegister ==
    ReturnedGet /\ container.registered[di_ret.name] >= 2

\* C6 (as claimed): for a service registered once as a singleton, sequential
\* get calls invoke its factory at most once.
C6_FactoryInvokedAtMostOnce ==
    \A n \in ServiceNames :
        (container.registered[n] = 1 /\ SingletonFlag(container, n))
            => container.calls[n] <= 1

\* C6 (amended): for a service registered once as a singleton, the factory
\* builds at most one instance however many get calls are made, and every get
\* that returns, returns that one instance, which is the cached one; a get
\* whose factory raises caches nothing and a later get invokes the factory
\* again.
C6_SingletonBuiltOnce ==
    \A n \in ServiceNames :
        (container.registered[n] = 1 /\ SingletonFlag(container, n)) =>
            /\ container.built[n] <= 1
            /\ (ReturnedGet /\ di_ret.name = n) =>
                   /\ container.built[n] = 1
                   /\ n \in DOMAIN container.singletons
                   /\ di_ret.value = container.singletons[n]
            /\ (n \in DOMAIN container.singletons) => container.built[n] = 1

\* C6, the case: a singleton registered once is returned by a get after an
\* earlier get of it ended in the factory raising.
C6_SecondGetServedFromCache ==
    /\ ReturnedGet
    /\ container.registered[di_ret.name] = 1
    /\ SingletonFlag(container, di_ret.name)
    /\ container.calls[di_ret.name] = 2
    /\ container.built[di_ret.name] = 1

\* C7: a get(name) on a transient service invokes the factory exactly once,
\* returns the object that very call built (a new identity, built by the
\* registered factory) and leaves the singleton cache as it was.
C7_TransientAlwaysFresh ==
    [][ (/\ di_ret'.op = "get"
         /\ IsRegistered(container, di_ret'.name)
         /\ ~SingletonFlag(container, di_ret'.name))
        => LET n == di_ret'.name
           IN /\ container'.calls[n] = container.calls[n] + 1
              /\ container'.singletons = container.singletons
              /\ di_ret'.outcome \in {"returned", "FactoryError"}
              /\ di_ret'.outcome = "returned" =>
                    /\ di_ret'.value = NewInstance(container, n)
                    /\ container'.made = container.made + 1
                    /\ container'.built[n] = container.built[n] + 1
      ]_vars

\* C7, the case: a transient service was resolved twice, each get building its
\* own object.
C7_TransientResolvedTwice ==
    /\ ReturnedGet
    /\ ~SingletonFlag(container, di_ret.name)
    /\ container.built[di_ret.name] >= 2
    /\ container.registered[di_ret.name] = 1

\* C8: get(name) for a name that was never registered raises the
\* unregistered-service error (ValueError), invokes no factory, constructs
\* nothing and leaves registrations and the singleton cache unchanged.
C8_UnregisteredGetFails ==
    [][ (di_ret'.op = "get" /\ ~IsRegistered(container, di_ret'.name))
        => /\ di_ret'.outcome = "ValueError"
           /\ di_ret'.value = None
           /\ container' = container
      ]_vars

\* C8, the case: an unregistered name was asked for while another service was
\* registered and cached.
C8_UnregisteredAsked ==
    /\ di_ret.op = "get"
    /\ di_ret.outcome = "ValueError"
    /\ container.registered[di_ret.name] = 0
    /\ DOMAIN container.singletons # {}

=============================================================================
